---- MODULE Spec2Model ----
(***************************************************************************)
(* Widget resolution of Perseus: Capsule::__widget / engine_widget /       *)
(* browser_widget (template/widget_component.rs) and                       *)
(* Reactor::get_widget_view / get_widget_state_no_fetch                    *)
(* (reactor/widget_state.rs), rendered for one page in one render mode.    *)
(*                                                                         *)
(* Strings are sequences of characters.  Only '/' is ever inspected by the *)
(* code modelled here, so a run of other characters is written as one      *)
(* element ("A", "en-US", ...).                                            *)
(***************************************************************************)
EXTENDS Integers, Sequences, FiniteSets, TLC

VARIABLES
    side,                           \* "engine" or "client" (cfg(engine) / cfg(client))
    render_mode,                    \* tag of Reactor::render_mode
    locale,                         \* reactor.get_translator().get_locale()
    capsules,                       \* the app's capsule definitions
    render_status,                  \* RenderMode::Build.render_status
    widget_render_cfg,              \* RenderMode::Build.widget_render_cfg
    immutable_store,                \* the files behind RenderMode::Build.immutable_store
    widget_states,                  \* RenderMode::{Build, Request}.widget_states
    possibly_incremental_paths,     \* RenderMode::Build.possibly_incremental_paths
    unresolved_widget_accumulator,  \* RenderMode::Request.unresolved_widget_accumulator
    state_store,                    \* reactor.state_store (the PSS)
    store_reads,                    \* keys passed to immutable_store.read, in order
    spawned_fetches,                \* browser: the fetch tasks spawned with spawn_local_scoped
    todo,                           \* widget call sites still to be invoked (stack of frames)
    last,                           \* the latest widget invocation and the view it returned
    panicked,                       \* TRUE once a panic!() has unwound the render
    page_sites,                     \* the widget calls of the page's view
    children,                       \* the widget calls of each capsule's view
    template,                       \* the page's template (TemplateInner)
    incremental_capsules,           \* the capsules that generate paths incrementally
    pass,                           \* number of the driver's current render pass
    outcome,                        \* "rendering", or how the driver ended the page
    alive,                          \* browser: the page's reactive scope still exists
    preloads,                       \* browser: fetch task -> state of its preload() call
    in_flight,                      \* browser: paths with an underlying fetch under way
    fetches,                        \* browser: path -> number of underlying fetches made
    settled,                        \* browser: fetch task -> the view it set at its end
    dependencies,                   \* browser: declared (widget path, caller path) edges
    given,                          \* the state handed to the state function applied last
    result,                         \* what that function returned
    running,                        \* the page whose view is being rendered
    parked                          \* the render context of a page rendered concurrently

\* The app, which no step changes.
appVars == <<page_sites, children, template, incremental_capsules>>

\* The build/request driver's own state.
driverVars == <<pass, outcome>>

\* The state functions applied outside a widget call.
callVars == <<given, result>>

\* The pages being rendered.
pageVars == <<running, parked>>

\* The browser's fetch tasks.
taskVars == <<alive, preloads, in_flight, fetches, settled, dependencies>>

vars == <<side, render_mode, locale, capsules, render_status, widget_render_cfg,
          immutable_store, widget_states, possibly_incremental_paths,
          unresolved_widget_accumulator, state_store, store_reads,
          spawned_fetches, todo, last, panicked,
          page_sites, children, template, incremental_capsules, pass, outcome,
          alive, preloads, in_flight, fetches, settled, dependencies,
          given, result, running, parked>>

(***************************************************************************)
(* Strings and paths                                                       *)
(***************************************************************************)
Slash == "/"

\* str::strip_prefix('/').unwrap_or(s)
StripLeadingSlash(s) ==
    IF Len(s) > 0 /\ s[1] = Slash THEN SubSeq(s, 2, Len(s)) ELSE s

\* str::strip_suffix('/').unwrap_or(s)
StripTrailingSlash(s) ==
    IF Len(s) > 0 /\ s[Len(s)] = Slash THEN SubSeq(s, 1, Len(s) - 1) ELSE s

\* Mutant of WidgetPath: the joined path keeps its trailing slash.
WidgetPathKeepsSlash(capsule_path, path) ==
    capsule_path \o <<Slash>> \o StripTrailingSlash(StripLeadingSlash(path))

\* The PathWithoutLocale that __widget computes from the capsule's path and
\* the path the user gave.
WidgetPath(capsule_path, path) ==
    StripTrailingSlash(
        capsule_path \o <<Slash>> \o StripTrailingSlash(StripLeadingSlash(path)))

NoLocale == "xx-XX"

\* PathMaybeWithLocale::new(&path, &locale)
PathMaybeWithLocale(path, loc) ==
    IF loc = NoLocale THEN path ELSE <<loc, Slash>> \o path

\* urlencoding::encode: '/' is percent-encoded, the other characters used
\* here are unreserved and pass through.
RECURSIVE UrlEncode(_)
UrlEncode(s) ==
    IF s = <<>> THEN <<>>
    ELSE (IF Head(s) = Slash THEN <<"%2F">> ELSE <<Head(s)>>) \o UrlEncode(Tail(s))

\* format!("static/{}.json", format!("{}-{}", locale, urlencoding::encode(&path)))
StateFileKey(loc, path) ==
    <<"static", Slash, loc, "-">> \o UrlEncode(path) \o <<".json">>

(***************************************************************************)
(* The app: two capsules and the widget call sites of the page and of the  *)
(* capsules' views.                                                        *)
(***************************************************************************)
CapsuleNames == {"A", "B"}

\* self.inner.get_path()
CapsulePath(c) == <<c>>

Site(c, p, d) == [capsule |-> c, path |-> p, delayed |-> d]

\* The page's view calls A.widget("/x") and A.delayed_widget("z").
PageSites == { Site("A", <<Slash, "x">>, FALSE),
               Site("A", <<"z">>, TRUE) }

\* The view of capsule A calls B.widget("y/") and B.widget(""), the index
\* widget of B; the view of B calls no widget.
CapsuleSites(c) ==
    IF c = "A" THEN { Site("B", <<"y", Slash>>, FALSE), Site("B", <<>>, FALSE) } ELSE {}

AllSites == PageSites \cup UNION { CapsuleSites(c) : c \in CapsuleNames }

SitePath(s) == WidgetPath(CapsulePath(s.capsule), s.path)

\* Paths of the widgets the engine resolves (non-delayed) and of all widgets.
EnginePaths == { SitePath(s) : s \in { t \in AllSites : ~t.delayed } }
AllPaths == { SitePath(s) : s \in AllSites }

\* The capsule that owns a widget path (its first segment).
OwnerOf(path) == path[1]

Locales == { NoLocale, "en-US" }

FullPaths(loc) == { PathMaybeWithLocale(p, loc) : p \in AllPaths }

(***************************************************************************)
(* Values: JSON, TemplateState, errors, views                              *)
(***************************************************************************)
Null == [t |-> "null"]
Num(n) == [t |-> "num", v |-> n]
Str(x) == [t |-> "str", v |-> x]

\* serde_json::from_str::<Value> on the file contents used here: "7" and
\* "\"s\"" and "null" are JSON, "{" is not.
ParseJson(text) ==
    CASE text = "null"    -> [ok |-> TRUE, val |-> Null]
      [] text = "7"       -> [ok |-> TRUE, val |-> Num(7)]
      [] text = "\"s\""   -> [ok |-> TRUE, val |-> Str("s")]
      [] OTHER            -> [ok |-> FALSE, err |-> "expected value"]

\* TemplateState::from_str
TemplateStateFromStr(text) ==
    LET r == ParseJson(text)
    IN  IF r.ok THEN [ok |-> TRUE, val |-> [state |-> r.val]]
        ELSE [ok |-> FALSE, err |-> r.err]

\* TemplateState::empty / is_empty / from_value
EmptyTemplateState == [state |-> Null]
IsEmpty(ts) == ts.state = Null
TemplateStateFromValue(v) == [state |-> v]

\* TemplateState::change_type::<S>().into_concrete(), for the state type S
\* of the capsules of this app, a number.
IntoConcrete(ts) ==
    IF ts.state.t = "num" THEN [ok |-> TRUE, val |-> ts.state.v]
    ELSE [ok |-> FALSE, err |-> "invalid type"]

\* into_concrete for Result<S, ServerErrorData> (serde's {"Ok": ..} /
\* {"Err": {status, msg}} representation).
IntoConcreteResult(ts) ==
    CASE ts.state.t = "ok" /\ ts.state.v.t = "num"
            -> [ok |-> TRUE, val |-> [ok |-> TRUE, val |-> ts.state.v.v]]
      [] ts.state.t = "err"
            -> [ok |-> TRUE, val |-> [ok |-> FALSE, status |-> ts.state.status,
                                                    msg |-> ts.state.msg]]
      [] OTHER -> [ok |-> FALSE, err |-> "invalid type"]

\* MakeRx for an unreactive state type, and its inverse.
MakeRx(v) == [wrapped |-> v]
MakeUnrx(rx) == rx.wrapped

\* ClientError / ClientInvariantError / ServerError values
NoState == [type |-> "InvariantError", err |-> "NoState"]
InvalidState(source) == [type |-> "InvariantError", err |-> "InvalidState", source |-> source]
InvalidWidgetPssEntry == [type |-> "InvariantError", err |-> "InvalidWidgetPssEntry"]
BadWidgetRouteMatch(path) ==
    [type |-> "InvariantError", err |-> "BadWidgetRouteMatch", path |-> path]
ClientServerError(status, message) ==
    [type |-> "ServerError", status |-> status, message |-> message]

StatusOk == [kind |-> "Ok"]
StatusCancelled == [kind |-> "Cancelled"]
StatusErr(e) == [kind |-> "Err", err |-> e]

\* View values: View::new(), the view a capsule's view function returns for
\* a state, the capsule's fallback view, and the body the error handler
\* returns for an error at a position.
EmptyView == [kind |-> "empty"]
WidgetView(c, st) == [kind |-> "widget", capsule |-> c, state |-> st]
StatelessWidgetView(c) == [kind |-> "widget", capsule |-> c]
FallbackView(c) == [kind |-> "fallback", capsule |-> c]

\* ErrorViews::handle_widget
HandleWidget(err) == [kind |-> "error", err |-> err, ctx |-> "Full", pos |-> "Widget"]

(***************************************************************************)
(* The state store (PSS)                                                   *)
(***************************************************************************)
PssStateNone == [t |-> "None"]
PssStateNever == [t |-> "Never"]
PssStateSome(rx) == [t |-> "Some", rx |-> rx]
HeadNone == [t |-> "None"]
HeadSome(h) == [t |-> "Some", v |-> h]

\* PssEntry::default()
DefaultEntry == [state |-> PssStateNone, head |-> HeadNone]

EmptyMap == [k \in {} |-> DefaultEntry]

\* HashMap::insert
Insert(f, k, v) == [x \in (DOMAIN f) \cup {k} |-> IF x = k THEN v ELSE f[x]]

EntryOf(store, url) == IF url \in DOMAIN store.map THEN store.map[url] ELSE DefaultEntry

\* PageStateStore::contains
Contains(store, url) ==
    LET e == EntryOf(store, url)
        inMap == CASE e.state.t = "Some" -> (IF e.head.t = "Some" THEN "All" ELSE "State")
                   [] e.state.t = "None" -> (IF e.head.t = "Some" THEN "Head" ELSE "None")
                   [] OTHER -> (IF e.head.t = "Some" THEN "HeadNoState" ELSE "None")
    IN  IF inMap = "None" /\ url \in DOMAIN store.preloaded THEN "Preloaded" ELSE inMap

\* Reactor::get_held_state(url, true): the active state of the path, if any.
GetHeldState(store, url) ==
    LET e == EntryOf(store, url)
    IN  IF e.state.t = "Some" THEN [some |-> TRUE, rx |-> e.state.rx] ELSE [some |-> FALSE]

\* PageStateStore::add_state: refused for an entry registered as never
\* taking state.
AddState(store, url, rx) ==
    LET e == EntryOf(store, url)
    IN  IF e.state.t = "Never"
        THEN [ok |-> FALSE,
              err |-> [type |-> "InvariantError", err |-> "IllegalStateRegistration"],
              store |-> store]
        ELSE [ok |-> TRUE,
              store |-> [store EXCEPT !.map =
                            Insert(store.map, url, [e EXCEPT !.state = PssStateSome(rx)])]]

\* PageStateStore::add_head
AddHead(store, url, head) ==
    [store EXCEPT !.map = Insert(store.map, url, [EntryOf(store, url) EXCEPT !.head = HeadSome(head)])]

\* Reactor::register_no_state
RegisterNoState(store, url) ==
    [store EXCEPT !.map = Insert(store.map, url, [EntryOf(store, url) EXCEPT !.state = PssStateNever])]

(***************************************************************************)
(* Reactor::get_widget_state_no_fetch.  The result is Ok(Some(rx)),        *)
(* Ok(None) or Err(err), together with the state store it leaves.          *)
(***************************************************************************)
OkSome(rx, store) == [ok |-> TRUE, some |-> TRUE, rx |-> rx, store |-> store]
OkNone(store) == [ok |-> TRUE, some |-> FALSE, store |-> store]
Failed(err, store) == [ok |-> FALSE, err |-> err, store |-> store]

\* Mutant of NoFetchClient: an entry with a head and no state is taken for
\* one that has to be fetched.
NoFetchClientHeadAsNone(store, url) ==
    LET c == Contains(store, url)
    IN  CASE c = "Preloaded" ->
               LET page_data == store.preloaded[url]
                   withHead == AddHead(store, url, <<>>)
                   unrx_res == IntoConcreteResult(TemplateStateFromValue(page_data.state))
               IN  IF ~unrx_res.ok THEN Failed(InvalidState(unrx_res.err), withHead)
                   ELSE IF unrx_res.val.ok
                   THEN LET rx == MakeRx(unrx_res.val.val)
                            added == AddState(withHead, url, rx)
                        IN  IF added.ok THEN OkSome(rx, added.store)
                            ELSE Failed(added.err, added.store)
                   ELSE Failed(ClientServerError(unrx_res.val.status, unrx_res.val.msg),
                               withHead)
          [] c \in {"None", "Head", "HeadNoState"} -> OkNone(store)

\* The cfg!(client) branch.
NoFetchClient(store, url) ==
    LET c == Contains(store, url)
    IN  CASE c = "Preloaded" ->
               LET page_data == store.preloaded[url]
                   withHead == AddHead(store, url, <<>>)
                   unrx_res == IntoConcreteResult(TemplateStateFromValue(page_data.state))
               IN  IF ~unrx_res.ok THEN Failed(InvalidState(unrx_res.err), withHead)
                   ELSE IF unrx_res.val.ok
                   THEN LET rx == MakeRx(unrx_res.val.val)
                            added == AddState(withHead, url, rx)
                        IN  IF added.ok THEN OkSome(rx, added.store)
                            ELSE Failed(added.err, added.store)
                   ELSE Failed(ClientServerError(unrx_res.val.status, unrx_res.val.msg),
                               withHead)
          [] c = "None" -> OkNone(store)
          [] c \in {"Head", "HeadNoState"} -> Failed(InvalidWidgetPssEntry, store)

\* Mutant of NoFetchEngine: the given state is not checked for emptiness.
NoFetchEngineUnchecked(store, url, server_state) ==
    LET unrx == IntoConcrete(server_state)
    IN  IF ~unrx.ok THEN Failed(InvalidState(unrx.err), store)
        ELSE LET rx == MakeRx(unrx.val)
                 added == AddState(store, url, rx)
             IN  IF added.ok THEN OkSome(rx, added.store)
                 ELSE Failed(added.err, added.store)

\* Mutant of NoFetchEngine: a state that does not deserialize is replaced
\* by the default state.
NoFetchEngineDefaults(store, url, server_state) ==
    IF IsEmpty(server_state) THEN Failed(NoState, store)
    ELSE LET unrx == IntoConcrete(server_state)
             rx == MakeRx(IF unrx.ok THEN unrx.val ELSE 0)
             added == AddState(store, url, rx)
         IN  IF added.ok THEN OkSome(rx, added.store)
             ELSE Failed(added.err, added.store)

\* The engine branch.
NoFetchEngine(store, url, server_state) ==
    IF IsEmpty(server_state) THEN Failed(NoState, store)
    ELSE LET unrx == IntoConcrete(server_state)
         IN  IF ~unrx.ok THEN Failed(InvalidState(unrx.err), store)
             ELSE LET rx == MakeRx(unrx.val)
                      added == AddState(store, url, rx)
                  IN  IF added.ok THEN OkSome(rx, added.store)
                      ELSE Failed(added.err, added.store)

\* Mutant of GetWidgetStateNoFetch: a held state is not looked for.
GetWidgetStateNoFetchAnew(store, url, server_state, client) ==
    IF client THEN NoFetchClient(store, url)
    ELSE NoFetchEngine(store, url, server_state)

GetWidgetStateNoFetch(store, url, server_state, client) ==
    LET held == GetHeldState(store, url)
    IN  IF held.some THEN OkSome(held.rx, store)
        ELSE IF client THEN NoFetchClient(store, url)
        ELSE NoFetchEngine(store, url, server_state)

(***************************************************************************)
(* Rendering a widget with its capsule's view                              *)
(***************************************************************************)
\* The synchronous part of Reactor::get_widget_view on the engine: an error
\* of the state lookup is propagated (`?`), a state is handed to view_fn.
GetWidgetViewEngine(store, c, url, template_state) ==
    LET r == GetWidgetStateNoFetch(store, url, template_state, FALSE)
    IN  IF ~r.ok THEN [ok |-> FALSE, err |-> r.err, store |-> r.store]
        ELSE [ok |-> TRUE, view |-> WidgetView(c, r.rx), store |-> r.store]

\* Capsule::render_widget_for_template_server: calls the capsule's view,
\* which either takes state (through get_widget_view) or declares that the
\* widget never takes state and calls the user's function directly.
RenderWidgetForTemplateServer(store, c, url, template_state) ==
    IF capsules[c].takes_state
    THEN GetWidgetViewEngine(store, c, url, template_state)
    ELSE [ok |-> TRUE, view |-> StatelessWidgetView(c), store |-> RegisterNoState(store, url)]

(***************************************************************************)
(* Capsule::engine_widget, RenderMode::Build                               *)
(***************************************************************************)
\* Mutant of RenderStatusIsOk: only an error stops the widgets.
RenderStatusIsNotErr(rs) == rs.kind # "Err"

\* Mutant of RenderStatusIsOk: the fail-fast check is left out.
RenderStatusUnchecked(rs) == TRUE

\* matches!(*render_status.borrow(), RenderStatus::Ok)
RenderStatusIsOk(rs) == rs.kind = "Ok"

\* Mutant of UnsafeForBuild: request state is not checked.
RevalidatesOnly(cap) == cap.revalidates

\* Mutant of UnsafeForBuild: revalidation is not checked.
UsesRequestStateOnly(cap) == cap.uses_request_state

\* self.inner.uses_request_state() || self.inner.revalidates()
UnsafeForBuild(cap) == cap.uses_request_state \/ cap.revalidates

\* block_on(immutable_store.read(key))
StoreRead(key) ==
    IF key \in DOMAIN immutable_store THEN immutable_store[key]
    ELSE [ok |-> FALSE, err |-> "NotFound"]

\* Mutant of StateTextOf: a missing file is an error like any other.
StateTextOfStrict(read) ==
    IF read.ok THEN [ok |-> TRUE, val |-> read.val]
    ELSE [ok |-> FALSE, err |-> [type |-> "StoreError", err |-> read.err]]

\* Mutant of StateTextOf: every failed read is taken as an empty state.
StateTextOfLenient(read) ==
    IF read.ok THEN [ok |-> TRUE, val |-> read.val] ELSE [ok |-> TRUE, val |-> "null"]

\* The match on the read: the file's content, "null" for a missing file,
\* any other error kept.
StateTextOf(read) ==
    IF read.ok THEN [ok |-> TRUE, val |-> read.val]
    ELSE IF read.err = "NotFound" THEN [ok |-> TRUE, val |-> "null"]
    ELSE [ok |-> FALSE, err |-> [type |-> "StoreError", err |-> read.err]]

\* What one call changes: the fields it may write, the view it returns and
\* whether the capsule's view function ran (so that its widgets are called).
Outcome(status, states, incremental, unresolved, store, reads, view, rendered) ==
    [render_status |-> status, widget_states |-> states,
     possibly_incremental_paths |-> incremental,
     unresolved_widget_accumulator |-> unresolved,
     state_store |-> store, store_reads |-> reads, view |-> view, rendered |-> rendered,
     spawned |-> FALSE]

Unchanged(view) ==
    Outcome(render_status, widget_states, possibly_incremental_paths,
            unresolved_widget_accumulator, state_store, store_reads, view, FALSE)

\* Mutant of WidgetStateEntry: the state is not copied into the entry.
WidgetStateEntryNoState(capsule_name, state) ==
    [capsule_name |-> capsule_name, state |-> Null]

\* The value inserted into widget_states: (capsule_name.to_string(),
\* state.state.clone())
WidgetStateEntry(capsule_name, state) ==
    [capsule_name |-> capsule_name, state |-> state.state]

\* Mutant of BuildResolve: the state is not recorded in widget_states.
BuildResolveUnrecorded(c, path, capsule_name) ==
    LET key == StateFileKey(locale, path)
        reads == Append(store_reads, key)
        text == StateTextOf(StoreRead(key))
        state == TemplateStateFromStr(text.val)
        localized_path == PathMaybeWithLocale(path, locale)
        render == RenderWidgetForTemplateServer(state_store, c, localized_path, state.val)
    IN  IF ~text.ok
        THEN [Unchanged(EmptyView) EXCEPT !.render_status = StatusErr(text.err),
                                          !.store_reads = reads]
        ELSE IF ~state.ok
        THEN [Unchanged(EmptyView) EXCEPT
                 !.render_status = StatusErr([type |-> "InvalidPageState", source |-> state.err]),
                 !.store_reads = reads]
        ELSE IF render.ok
        THEN [Unchanged(render.view) EXCEPT !.store_reads = reads,
                                            !.state_store = render.store, !.rendered = TRUE]
        ELSE [Unchanged(EmptyView) EXCEPT
                 !.render_status = StatusErr([type |-> "ClientError", err |-> render.err]),
                 !.store_reads = reads, !.state_store = render.store]

\* The widget is in the render config and safe for building: read its state
\* file, record the state and render the widget with it.
BuildResolve(c, path, capsule_name) ==
    LET key == StateFileKey(locale, path)
        reads == Append(store_reads, key)
        text == StateTextOf(StoreRead(key))
        state == TemplateStateFromStr(text.val)
        localized_path == PathMaybeWithLocale(path, locale)
        states == Insert(widget_states, localized_path,
                         WidgetStateEntry(capsule_name, state.val))
        render == RenderWidgetForTemplateServer(state_store, c, localized_path, state.val)
    IN  IF ~text.ok
        THEN [Unchanged(EmptyView) EXCEPT !.render_status = StatusErr(text.err),
                                          !.store_reads = reads]
        ELSE IF ~state.ok
        THEN [Unchanged(EmptyView) EXCEPT
                 !.render_status = StatusErr([type |-> "InvalidPageState", source |-> state.err]),
                 !.store_reads = reads]
        ELSE IF render.ok
        THEN [Unchanged(render.view) EXCEPT !.widget_states = states, !.store_reads = reads,
                                            !.state_store = render.store, !.rendered = TRUE]
        ELSE [Unchanged(EmptyView) EXCEPT
                 !.render_status = StatusErr([type |-> "ClientError", err |-> render.err]),
                 !.widget_states = states, !.store_reads = reads,
                 !.state_store = render.store]

\* The fail-fast return when the render status isn't good.
BuildShortCircuit == Unchanged(EmptyView)

\* The capsule is not safe for building: the page's build is cancelled.
BuildCancel == [Unchanged(EmptyView) EXCEPT !.render_status = StatusCancelled]

\* Mutant of EngineWidgetBuild: the render config is not consulted, every
\* widget is resolved as if it were in it under its own capsule's name.
EngineWidgetBuildAll(c, path) ==
    IF ~RenderStatusIsOk(render_status) THEN BuildShortCircuit
    ELSE IF UnsafeForBuild(capsules[c]) THEN BuildCancel
    ELSE BuildResolve(c, path, c)

\* Mutant of BuildDefer: a widget outside the render config cancels the build.
BuildDeferCancels(path) ==
    [Unchanged(EmptyView) EXCEPT
        !.render_status = StatusCancelled,
        !.possibly_incremental_paths = Append(possibly_incremental_paths, path)]

\* Mutant of BuildDefer: the path is not handed to the build process.
BuildDeferForgotten(path) == Unchanged(EmptyView)

\* The widget is not in the render config: it is left to the build process
\* as possibly incremental, and the render status is not changed.
BuildDefer(path) ==
    [Unchanged(EmptyView) EXCEPT
        !.possibly_incremental_paths = Append(possibly_incremental_paths, path)]

EngineWidgetBuild(c, path) ==
    IF ~RenderStatusIsOk(render_status) THEN BuildShortCircuit
    ELSE IF path \in DOMAIN widget_render_cfg
    THEN IF UnsafeForBuild(capsules[c]) THEN BuildCancel
         ELSE BuildResolve(c, path, widget_render_cfg[path])
    ELSE BuildDefer(path)

(***************************************************************************)
(* Capsule::engine_widget, RenderMode::Request                             *)
(***************************************************************************)
\* widget_states holds the widget's state: render the widget with it, any
\* error of the render becoming the widget's error view.
RequestRender(c, full_path, state) ==
    LET render == RenderWidgetForTemplateServer(state_store, c, full_path, state)
    IN  IF render.ok
        THEN [Unchanged(render.view) EXCEPT !.state_store = render.store, !.rendered = TRUE]
        ELSE [Unchanged(HandleWidget(render.err)) EXCEPT !.state_store = render.store]

\* Mutant of RequestError: the status of the error data is not passed on.
RequestErrorAlways500(err_data) ==
    Unchanged(HandleWidget(ClientServerError(500, err_data.msg)))

\* widget_states holds error data for the widget: an error view that takes
\* up the widget.
RequestError(err_data) ==
    Unchanged(HandleWidget(ClientServerError(err_data.status, err_data.msg)))

\* Mutant of RequestUnresolved: only the first unresolved widget of a pass
\* is accumulated.
RequestUnresolvedFirstOnly(path) ==
    IF unresolved_widget_accumulator # <<>> THEN Unchanged(EmptyView)
    ELSE [Unchanged(EmptyView) EXCEPT
             !.unresolved_widget_accumulator = Append(unresolved_widget_accumulator, path)]

\* Mutant of RequestUnresolved: the path is also given an empty state in
\* widget_states, within the pass.
RequestUnresolvedResolvesNow(path) ==
    [Unchanged(EmptyView) EXCEPT
        !.unresolved_widget_accumulator = Append(unresolved_widget_accumulator, path),
        !.widget_states = Insert(widget_states, PathMaybeWithLocale(path, locale),
                                 [ok |-> TRUE, state |-> [state |-> Null]])]

\* Mutant of RequestUnresolved: the path is not accumulated.
RequestUnresolvedForgotten(path) == Unchanged(EmptyView)

\* widget_states doesn't hold the widget: it is left for the next pass.
RequestUnresolved(path) ==
    [Unchanged(EmptyView) EXCEPT
        !.unresolved_widget_accumulator = Append(unresolved_widget_accumulator, path)]

\* Mutant of EngineWidgetRequest: widget_states is searched for the path
\* without its locale.
EngineWidgetRequestUnlocalized(c, path) ==
    IF path \in DOMAIN widget_states
    THEN LET res == widget_states[path]
         IN  IF res.ok THEN RequestRender(c, PathMaybeWithLocale(path, locale), res.state)
             ELSE RequestError(res)
    ELSE RequestUnresolved(path)

EngineWidgetRequest(c, path) ==
    LET full_path == PathMaybeWithLocale(path, locale)
    IN  IF full_path \in DOMAIN widget_states
        THEN LET res == widget_states[full_path]
             IN  IF res.ok THEN RequestRender(c, full_path, res.state)
                 ELSE RequestError(res)
        ELSE RequestUnresolved(path)

(***************************************************************************)
(* Capsule::browser_widget and the synchronous part of get_widget_view in  *)
(* the browser                                                             *)
(***************************************************************************)
\* reactor.router_state.get_path(): the page that contains the widgets.
CallerPath == PathMaybeWithLocale(<<"page">>, locale)

\* Reactor::get_widget_view in the browser, up to its return: an error of
\* the state lookup is propagated (`?`), a state is handed to view_fn, and
\* with no state the fallback is shown while a fetch is spawned.
GetWidgetViewClient(c, full_path) ==
    LET r == GetWidgetStateNoFetch(state_store, full_path, EmptyTemplateState, TRUE)
    IN  IF ~r.ok
        THEN [ok |-> FALSE, err |-> r.err, store |-> r.store]
        ELSE IF r.some
        THEN [ok |-> TRUE, view |-> WidgetView(c, r.rx), store |-> r.store,
              rendered |-> TRUE, spawned |-> FALSE]
        ELSE [ok |-> TRUE, view |-> FallbackView(c), store |-> r.store,
              rendered |-> FALSE, spawned |-> TRUE]

\* Capsule::render_widget_for_template_client: calls the capsule's view,
\* which takes state (through get_widget_view) or takes none.
RenderWidgetForTemplateClient(c, full_path) ==
    IF capsules[c].takes_state
    THEN GetWidgetViewClient(c, full_path)
    ELSE [ok |-> TRUE, view |-> StatelessWidgetView(c),
          store |-> RegisterNoState(state_store, full_path),
          rendered |-> TRUE, spawned |-> FALSE]

\* Mutant of BrowserFound: the error of a failed render is dropped.
BrowserFoundDropsError(c, full_path) ==
    LET render == RenderWidgetForTemplateClient(c, full_path)
    IN  IF render.ok
        THEN [Unchanged(render.view) EXCEPT !.state_store = render.store,
                                            !.rendered = render.rendered,
                                            !.spawned = render.spawned]
        ELSE [Unchanged(EmptyView) EXCEPT !.state_store = render.store]

\* The arm of browser_widget for a widget the router found: the view, or
\* the error view of a failed render.
BrowserFound(c, full_path) ==
    LET render == RenderWidgetForTemplateClient(c, full_path)
    IN  IF render.ok
        THEN [Unchanged(render.view) EXCEPT !.state_store = render.store,
                                            !.rendered = render.rendered,
                                            !.spawned = render.spawned]
        ELSE [Unchanged(HandleWidget(render.err)) EXCEPT !.state_store = render.store]

\* What FullRouteVerdict the router can answer for a widget's full path.
RouteVerdicts == {"Found", "NotFound", "LocaleDetection"}

\* Mutant of BrowserWidget: the router's verdict is not consulted.
BrowserWidgetUnrouted(c, path, verdict) ==
    BrowserFound(c, PathMaybeWithLocale(path, locale))

\* `verdict` is what the router answers for the widget's full path.
BrowserWidget(c, path, verdict) ==
    IF verdict = "Found"
    THEN BrowserFound(c, PathMaybeWithLocale(path, locale))
    ELSE Unchanged(HandleWidget(BadWidgetRouteMatch(path)))

(***************************************************************************)
(* Capsule::__widget: one widget call of the view being rendered           *)
(***************************************************************************)
NoView == [kind |-> "none"]

\* The call sites left after `s` has been called: those of the view that was
\* being rendered, preceded by those of the widget's own view if it ran.
Advance(frames, s, rendered) ==
    LET top == Head(frames) \ {s}
        kids == IF rendered THEN children[s.capsule] ELSE {}
    IN  (IF kids # {} THEN <<kids>> ELSE <<>>)
            \o (IF top # {} THEN <<top>> ELSE <<>>) \o Tail(frames)

\* The fields a widget call may write, as they are.
Fields ==
    [render_status |-> render_status, widget_states |-> widget_states,
     possibly_incremental_paths |-> possibly_incremental_paths,
     unresolved_widget_accumulator |-> unresolved_widget_accumulator,
     state_store |-> state_store, store_reads |-> store_reads]

\* Call numbers wrap around after MaxCallNo, so that a render that never
\* ends has finitely many states.
MaxCallNo == 8

\* The record of a call: its number, the call site, the widget path, the
\* router's verdict (browser), the view returned (if the call returned) and
\* the fields as the call found them.
Called(s, path, verdict, view, returned) ==
    [n |-> IF last.n < MaxCallNo THEN last.n + 1 ELSE 1, site |-> s, path |-> path, verdict |-> verdict, view |-> view,
     returned |-> returned, pre |-> Fields]

\* The call returns `o.view` and leaves the fields as `o` gives them.
Return(s, path, verdict, o) ==
    /\ render_status' = o.render_status
    /\ widget_states' = o.widget_states
    /\ possibly_incremental_paths' = o.possibly_incremental_paths
    /\ unresolved_widget_accumulator' = o.unresolved_widget_accumulator
    /\ state_store' = o.state_store
    /\ store_reads' = o.store_reads
    /\ spawned_fetches' =
           IF o.spawned
           THEN spawned_fetches \cup
                    {[site |-> s, path |-> PathMaybeWithLocale(path, locale),
                      capsule |-> s.capsule, caller_path |-> CallerPath]}
           ELSE spawned_fetches
    /\ last' = Called(s, path, verdict, o.view, TRUE)
    /\ todo' = Advance(todo, s, o.rendered)
    /\ panicked' = FALSE

\* panic!("widgets cannot be used in heads") and its two siblings.
Panic(s, path) ==
    /\ panicked' = TRUE
    /\ last' = Called(s, path, "none", NoView, FALSE)
    /\ UNCHANGED <<render_status, widget_states, possibly_incremental_paths,
                   unresolved_widget_accumulator, state_store, store_reads,
                   spawned_fetches, todo>>

\* Mutant of RendersFallback: a delayed widget is resolved like any other.
RendersFallbackNever(delayed) == FALSE

\* Whether __widget renders the capsule's fallback itself instead of
\* calling engine_widget.
RendersFallback(delayed) == delayed

EngineWidget(s) ==
    LET path == SitePath(s)
    IN  IF RendersFallback(s.delayed)
        THEN Return(s, path, "none", Unchanged(FallbackView(s.capsule)))
        ELSE CASE render_mode = "Build" ->
                    Return(s, path, "none", EngineWidgetBuild(s.capsule, path))
               [] render_mode = "Request" ->
                    Return(s, path, "none", EngineWidgetRequest(s.capsule, path))
               [] render_mode \in {"Head", "Error", "Headers"} -> Panic(s, path)

Widget ==
    /\ ~panicked
    /\ outcome = "rendering" /\ alive
    /\ todo # <<>>
    /\ \E s \in Head(todo) :
          IF side = "engine" THEN EngineWidget(s)
          ELSE \E verdict \in RouteVerdicts :
                  Return(s, SitePath(s), verdict,
                         BrowserWidget(s.capsule, SitePath(s), verdict))
    /\ UNCHANGED <<side, render_mode, locale, capsules, widget_render_cfg, immutable_store>>
    /\ UNCHANGED <<appVars, callVars, pageVars, driverVars, taskVars>>

(***************************************************************************)
(* Initial states                                                          *)
(***************************************************************************)
\* A capsule that uses request state or revalidates has state, so its view
\* takes state.
CapsuleKinds ==
    { k \in [uses_request_state : BOOLEAN, revalidates : BOOLEAN, takes_state : BOOLEAN] :
        (k.uses_request_state \/ k.revalidates) => k.takes_state }

\* The request-state and revalidation flags are read in Build mode only.
ViewKinds == { k \in CapsuleKinds : ~k.uses_request_state /\ ~k.revalidates }

\* What the immutable store answers for a file that is not simply missing.
FileOutcomes ==
    { [ok |-> TRUE, val |-> "7"], [ok |-> TRUE, val |-> "\"s\""], [ok |-> TRUE, val |-> "{"],
      [ok |-> FALSE, err |-> "ReadFailed"] }

PartialFns(D, R) == UNION { [X -> R] : X \in SUBSET D }

EmptyStore == [map |-> EmptyMap, preloaded |-> EmptyMap]

\* Mutant of TemplateInnerNew: a new template may be rescheduled.
TemplateInnerNewReschedulable ==
    [incremental_generation |-> FALSE, can_be_rescheduled |-> TRUE]

\* TemplateInner::new: a new template has not opted in to rescheduling.
TemplateInnerNew == [incremental_generation |-> FALSE, can_be_rescheduled |-> FALSE]

\* No state function has been applied.
Nothing == [kind |-> "nothing"]

InitNoCall == given = Nothing /\ result = Nothing

\* One page is rendered, alone.
Nobody == [page |-> 0]

InitOnePage == running = 1 /\ parked = Nobody

\* No fetch task exists.
InitNoTasks ==
    /\ alive = TRUE
    /\ preloads = EmptyMap /\ in_flight = {} /\ fetches = EmptyMap
    /\ settled = EmptyMap /\ dependencies = {}

\* One render of the page, outside any driver loop.
InitSingleRender ==
    /\ page_sites = PageSites
    /\ children = [c \in CapsuleNames |-> CapsuleSites(c)]
    /\ template = TemplateInnerNew /\ incremental_capsules = {}
    /\ pass = 1 /\ outcome = "rendering"
    /\ InitNoTasks /\ InitNoCall /\ InitOnePage

InitCommon ==
    /\ InitSingleRender
    /\ locale \in Locales
    /\ capsules \in [CapsuleNames -> IF render_mode = "Build" THEN CapsuleKinds ELSE ViewKinds]
    /\ render_status = StatusOk
    /\ possibly_incremental_paths = <<>>
    /\ unresolved_widget_accumulator = <<>>
    /\ store_reads = <<>>
    /\ spawned_fetches = {}
    /\ todo = <<PageSites>>
    /\ last = [n |-> 0, site |-> Site("", <<>>, FALSE), path |-> <<>>, verdict |-> "none",
               view |-> NoView, returned |-> FALSE, pre |-> [render_status |-> StatusOk]]
    /\ panicked = FALSE

\* Build: the render config maps some of the widget paths to their capsules
\* and the immutable store holds the state files written for them (files of
\* paths outside the render config are never read and are left out).
InitBuild ==
    /\ side = "engine" /\ render_mode = "Build"
    /\ InitCommon
    /\ \E P \in SUBSET EnginePaths :
          /\ widget_render_cfg = [p \in P |-> OwnerOf(p)]
          /\ immutable_store \in PartialFns({ StateFileKey(locale, p) : p \in P }, FileOutcomes)
    /\ widget_states = EmptyMap
    /\ state_store = EmptyStore

\* Request: widget_states holds what earlier passes fetched.
RequestResults ==
    { [ok |-> TRUE, state |-> [state |-> v]] : v \in {Null, Num(7), Str("s")} }
        \cup { [ok |-> FALSE, status |-> 404, msg |-> "not found"] }

InitRequest ==
    /\ side = "engine" /\ render_mode = "Request"
    /\ InitCommon
    /\ widget_render_cfg = EmptyMap /\ immutable_store = EmptyMap
    /\ widget_states \in
          PartialFns({ PathMaybeWithLocale(p, locale) : p \in EnginePaths }, RequestResults)
    /\ state_store = EmptyStore

InitNoWidgets ==
    /\ side = "engine" /\ render_mode \in {"Head", "Error", "Headers"}
    /\ InitCommon
    /\ widget_render_cfg = EmptyMap /\ immutable_store = EmptyMap
    /\ widget_states = EmptyMap
    /\ state_store = EmptyStore

\* Browser: the state store holds what the initial load preloaded, the
\* states of the widgets the engine resolved.
PreloadedData ==
    { [state |-> v, head |-> <<>>] :
        v \in { [t |-> "ok", v |-> Num(7)],
                [t |-> "err", status |-> 500, msg |-> "boom"],
                Null } }

InitClient ==
    /\ side = "client" /\ render_mode = "Client"
    /\ InitCommon
    /\ widget_render_cfg = EmptyMap /\ immutable_store = EmptyMap
    /\ widget_states = EmptyMap
    /\ \E pre \in PartialFns({ PathMaybeWithLocale(p, locale) : p \in EnginePaths },
                             PreloadedData) :
          state_store = [map |-> EmptyMap, preloaded |-> pre]

Init == InitBuild \/ InitRequest \/ InitNoWidgets \/ InitClient

Next == Widget

Spec == Init /\ [][Next]_vars

(***************************************************************************)
(* The request-time driver: render passes to a fixed point                 *)
(***************************************************************************)
\* The frames of a fresh render of the page.
PageFrames == IF page_sites = {} THEN <<>> ELSE <<page_sites>>

\* The elements of a sequence.
Range(q) == { q[i] : i \in DOMAIN q }

\* The states merged into widget_states for the accumulated paths.
Merge(states, fetched) ==
    [k \in (DOMAIN states) \cup (DOMAIN fetched) |->
        IF k \in DOMAIN fetched THEN fetched[k] ELSE states[k]]

\* A pass that left nothing unresolved is the last one.
RequestDone ==
    /\ unresolved_widget_accumulator = <<>>
    /\ outcome' = "done"
    /\ UNCHANGED <<widget_states, unresolved_widget_accumulator, todo, pass>>

\* Every accumulated path is fetched (each fetch gives a state or the data
\* of a server error), the results are merged into widget_states, the
\* accumulator is cleared and the page is rendered again.
RequestNextPass ==
    /\ unresolved_widget_accumulator # <<>>
    /\ \E fetched \in [{ PathMaybeWithLocale(p, locale) :
                            p \in Range(unresolved_widget_accumulator) } -> RequestResults] :
          widget_states' = Merge(widget_states, fetched)
    /\ unresolved_widget_accumulator' = <<>>
    /\ todo' = PageFrames
    /\ pass' = pass + 1
    /\ UNCHANGED outcome

\* The end of a render pass in Request mode.
RequestPassEnd ==
    /\ side = "engine" /\ render_mode = "Request"
    /\ outcome = "rendering" /\ ~panicked /\ todo = <<>>
    /\ (RequestDone \/ RequestNextPass)
    /\ UNCHANGED <<side, render_mode, locale, capsules, render_status, widget_render_cfg,
                   immutable_store, possibly_incremental_paths, state_store, store_reads,
                   spawned_fetches, last, panicked>>
    /\ UNCHANGED <<appVars, callVars, pageVars, taskVars>>

\* The page's view calls A.widget("/x") and B.widget("y"); the view of A
\* calls A.widget("x") and the view of B calls A.widget("x/"): the widget
\* A/x contains itself, and B/y contains it.
CyclicPageSites == { Site("A", <<Slash, "x">>, FALSE), Site("B", <<"y">>, FALSE) }

CyclicSites(c) ==
    IF c = "A" THEN { Site("A", <<"x">>, FALSE) } ELSE { Site("A", <<"x", Slash>>, FALSE) }

\* The capsules whose widgets the view of `c` calls, and those of their
\* views, and so on.
RECURSIVE CapsulesBelow(_, _, _)
CapsulesBelow(ch, cs, fuel) ==
    LET next == cs \cup { s.capsule : s \in UNION { ch[c] : c \in cs } }
    IN  IF fuel = 0 \/ next = cs THEN cs ELSE CapsulesBelow(ch, next, fuel - 1)

ContainsItself(ch, c) ==
    c \in CapsulesBelow(ch, { s.capsule : s \in ch[c] }, Cardinality(CapsuleNames))

Acyclic(ch) == \A c \in CapsuleNames : ~ContainsItself(ch, c)

Max(S) == CHOOSE x \in S : \A y \in S : y <= x

\* The nesting depth of the widgets called from a set of call sites: 0
\* without widgets, 1 for widgets that contain none.
RECURSIVE NestingDepth(_, _, _)
NestingDepth(ch, sites, fuel) ==
    IF sites = {} \/ fuel = 0 THEN 0
    ELSE 1 + Max({ NestingDepth(ch, ch[s.capsule], fuel - 1) : s \in sites })

TreeDepth == NestingDepth(children, page_sites, Cardinality(CapsuleNames))

\* The first pass of a request for a page: no widget state is known yet.
InitFirstPass ==
    /\ side = "engine" /\ render_mode = "Request"
    /\ locale \in Locales
    /\ capsules \in [CapsuleNames -> ViewKinds]
    /\ template = TemplateInnerNew /\ incremental_capsules = {}
    /\ pass = 1 /\ outcome = "rendering"
    /\ InitNoTasks /\ InitNoCall /\ InitOnePage
    /\ render_status = StatusOk
    /\ widget_render_cfg = EmptyMap /\ immutable_store = EmptyMap
    /\ widget_states = EmptyMap
    /\ possibly_incremental_paths = <<>>
    /\ unresolved_widget_accumulator = <<>>
    /\ state_store = EmptyStore
    /\ store_reads = <<>>
    /\ spawned_fetches = {}
    /\ todo = PageFrames
    /\ last = [n |-> 0, site |-> Site("", <<>>, FALSE), path |-> <<>>, verdict |-> "none",
               view |-> NoView, returned |-> FALSE, pre |-> [render_status |-> StatusOk]]
    /\ panicked = FALSE

\* A request for a page made of some of the widget calls of the app.
InitRequestLoop ==
    /\ page_sites \in SUBSET (PageSites \cup CapsuleSites("A"))
    /\ children = [c \in CapsuleNames |-> CapsuleSites(c)]
    /\ InitFirstPass

\* A request for a page of the app whose widgets contain themselves.
InitCyclicRequest ==
    /\ page_sites \in (SUBSET CyclicPageSites) \ {{}}
    /\ children = [c \in CapsuleNames |-> CyclicSites(c)]
    /\ InitFirstPass

NextRequest == Widget \/ RequestPassEnd

SpecRequest == InitRequestLoop /\ [][NextRequest]_vars

\* The engine runs a request to its end: the render and the driver are
\* always scheduled.
SpecCyclicRequest == InitCyclicRequest /\ [][NextRequest]_vars /\ WF_vars(NextRequest)

(***************************************************************************)
(* The build driver: construction passes to a fixed point                  *)
(***************************************************************************)
\* The number of passes after which the driver gives up.
PassLimit == 2

\* The template's opt-in to rescheduling.
AllowRescheduling(t) == [t EXCEPT !.can_be_rescheduled = TRUE]

\* The state files that incremental generation writes: a state, or the
\* empty state of a capsule that generates none.
GeneratedStates == { [ok |-> TRUE, val |-> "7"], [ok |-> TRUE, val |-> "null"] }

\* The deferred paths, as a set.
DeferredPaths == Range(possibly_incremental_paths)

\* A fresh RenderMode::Build for the next construction of the page.
FreshBuildPass ==
    /\ render_status' = StatusOk
    /\ widget_states' = EmptyMap
    /\ possibly_incremental_paths' = <<>>
    /\ todo' = PageFrames
    /\ pass' = pass + 1
    /\ outcome' = "rendering"

\* The driver ends the page's build.
BuildEnds(how) ==
    /\ outcome' = how
    /\ UNCHANGED <<render_status, widget_states, possibly_incremental_paths, todo, pass,
                   widget_render_cfg, immutable_store>>

\* The pass failed: a build error.
BuildFailed ==
    /\ render_status.kind = "Err"
    /\ BuildEnds("error")

\* The pass was cancelled: the page goes to request time if its template
\* allows that, else the build fails.
BuildCancelled ==
    /\ render_status.kind = "Cancelled"
    /\ BuildEnds(IF template.can_be_rescheduled THEN "rescheduled" ELSE "error")

\* The pass deferred nothing: the fixed point.
BuildFixedPoint ==
    /\ render_status.kind = "Ok"
    /\ possibly_incremental_paths = <<>>
    /\ BuildEnds("done")

\* A deferred path belongs to a capsule that does not generate
\* incrementally: the page fails.
BuildNotIncremental ==
    /\ render_status.kind = "Ok"
    /\ \E p \in DeferredPaths : OwnerOf(p) \notin incremental_capsules
    /\ BuildEnds("error")

\* The pass limit is reached with paths still deferred: a build error.
BuildPassLimit ==
    /\ render_status.kind = "Ok"
    /\ possibly_incremental_paths # <<>>
    /\ \A p \in DeferredPaths : OwnerOf(p) \in incremental_capsules
    /\ pass >= PassLimit
    /\ BuildEnds("error")

\* Every deferred path is generated incrementally (its state file is
\* written and it enters the render config) and the page is constructed
\* again.
BuildGenerate ==
    /\ render_status.kind = "Ok"
    /\ possibly_incremental_paths # <<>>
    /\ \A p \in DeferredPaths : OwnerOf(p) \in incremental_capsules
    /\ pass < PassLimit
    /\ widget_render_cfg' =
           [p \in (DOMAIN widget_render_cfg) \cup DeferredPaths |->
               IF p \in DeferredPaths THEN OwnerOf(p) ELSE widget_render_cfg[p]]
    /\ \E files \in [{ StateFileKey(locale, p) : p \in DeferredPaths } -> GeneratedStates] :
          immutable_store' = Merge(immutable_store, files)
    /\ FreshBuildPass

\* The end of a construction pass in Build mode.
BuildPassEnd ==
    /\ side = "engine" /\ render_mode = "Build"
    /\ outcome = "rendering" /\ ~panicked /\ todo = <<>>
    /\ \/ BuildFailed
       \/ BuildCancelled
       \/ BuildFixedPoint
       \/ BuildNotIncremental
       \/ BuildPassLimit
       \/ BuildGenerate
    /\ UNCHANGED <<side, render_mode, locale, capsules, unresolved_widget_accumulator,
                   state_store, store_reads, spawned_fetches, last, panicked>>
    /\ UNCHANGED <<appVars, callVars, pageVars, taskVars>>

\* The page's view calls A.widget("/x"), A.delayed_widget("z") and
\* B.widget("y/").
BuildPageSites == PageSites \cup { Site("B", <<"y", Slash>>, FALSE) }

\* The first construction pass of the build of a page: the render config
\* holds some of the widget paths, with the state files written for them.
InitBuildLoop ==
    /\ side = "engine" /\ render_mode = "Build"
    /\ locale \in Locales
    /\ capsules \in [CapsuleNames -> CapsuleKinds]
    /\ page_sites = BuildPageSites
    /\ children = [c \in CapsuleNames |-> CapsuleSites(c)]
    /\ template \in { TemplateInnerNew, AllowRescheduling(TemplateInnerNew) }
    /\ incremental_capsules \in SUBSET CapsuleNames
    /\ pass = 1 /\ outcome = "rendering"
    /\ InitNoTasks /\ InitNoCall /\ InitOnePage
    /\ render_status = StatusOk
    /\ \E P \in SUBSET EnginePaths :
          /\ widget_render_cfg = [p \in P |-> OwnerOf(p)]
          /\ immutable_store \in
                PartialFns({ StateFileKey(locale, p) : p \in P }, { [ok |-> TRUE, val |-> "7"] })
    /\ widget_states = EmptyMap
    /\ possibly_incremental_paths = <<>>
    /\ unresolved_widget_accumulator = <<>>
    /\ state_store = EmptyStore
    /\ store_reads = <<>>
    /\ spawned_fetches = {}
    /\ todo = PageFrames
    /\ last = [n |-> 0, site |-> Site("", <<>>, FALSE), path |-> <<>>, verdict |-> "none",
               view |-> NoView, returned |-> FALSE, pre |-> [render_status |-> StatusOk]]
    /\ panicked = FALSE

NextBuild == Widget \/ BuildPassEnd

SpecBuild == InitBuildLoop /\ [][NextBuild]_vars

(***************************************************************************)
(* Properties of Capsule::engine_widget.  A step is a widget call when it  *)
(* numbers a new call; the calls that reach engine_widget are the          *)
(* non-delayed calls made on the engine.                                   *)
(***************************************************************************)
Invoked == last'.n # last.n

EngineWidgetCalled == side = "engine" /\ Invoked /\ ~last'.site.delayed

\* The same, of the latest call, as a state predicate.
EngineWidgetWasCalled == side = "engine" /\ last.n > 0 /\ ~last.site.delayed

\* The call finds the widget in the render config, with a capsule that is
\* safe for building, while the render status is Ok.
ResolvesAtBuild(call) ==
    /\ render_mode = "Build"
    /\ call.pre.render_status.kind = "Ok"
    /\ call.path \in DOMAIN widget_render_cfg
    /\ ~capsules[call.site.capsule].uses_request_state
    /\ ~capsules[call.site.capsule].revalidates

\* The state file of the call's widget.
FileOf(call) == StateFileKey(locale, call.path)
FileMissing(call) == FileOf(call) \notin DOMAIN immutable_store
FileUnreadable(call) == ~FileMissing(call) /\ ~immutable_store[FileOf(call)].ok
FileRead(call) == ~FileMissing(call) /\ immutable_store[FileOf(call)].ok
FileParses(call) == FileRead(call) /\ ParseJson(immutable_store[FileOf(call)].val).ok

\* C1: in Build mode, a widget call made while render_status is not Ok
\* returns an empty view and leaves render_status, widget_states and
\* possibly_incremental_paths as they were, without reading the immutable
\* store.
C1_ShortCircuitChangesNothing ==
    [][ (render_mode = "Build" /\ EngineWidgetCalled /\ render_status.kind # "Ok")
          => /\ last'.returned /\ last'.view = EmptyView
             /\ UNCHANGED <<render_status, widget_states, possibly_incremental_paths,
                            store_reads>> ]_vars

C1_Witness ==
    /\ render_mode = "Build" /\ EngineWidgetWasCalled
    /\ last.pre.render_status.kind # "Ok"
    /\ last.view = EmptyView

\* C2: in Build mode with render_status Ok, calling a widget that is in the
\* render config and whose capsule uses request state or revalidates sets
\* render_status to Cancelled, returns an empty view and records nothing in
\* widget_states or possibly_incremental_paths.
C2_UnsafeCapsuleCancels ==
    [][ ( /\ render_mode = "Build" /\ EngineWidgetCalled
          /\ render_status.kind = "Ok"
          /\ last'.path \in DOMAIN widget_render_cfg
          /\ \/ capsules[last'.site.capsule].uses_request_state
             \/ capsules[last'.site.capsule].revalidates )
          => /\ render_status' = StatusCancelled
             /\ last'.returned /\ last'.view = EmptyView
             /\ UNCHANGED <<widget_states, possibly_incremental_paths>> ]_vars

C2_Witness ==
    /\ render_mode = "Build" /\ EngineWidgetWasCalled
    /\ last.pre.render_status.kind = "Ok"
    /\ last.path \in DOMAIN widget_render_cfg
    /\ capsules[last.site.capsule].revalidates
    /\ ~capsules[last.site.capsule].uses_request_state
    /\ render_status = StatusCancelled

C4_ReadOrParseFailureIsErr ==
    [][ ( /\ render_mode = "Build" /\ EngineWidgetCalled
          /\ render_status.kind = "Ok"
          /\ ResolvesAtBuild(last')
          /\ (FileUnreadable(last') \/ (FileRead(last') /\ ~FileParses(last'))) )
          => /\ render_status'.kind = "Err"
             /\ last'.returned /\ last'.view = EmptyView
             /\ widget_states' = widget_states ]_vars

C4_Witness ==
    /\ EngineWidgetWasCalled /\ ResolvesAtBuild(last)
    /\ FileRead(last) /\ ~FileParses(last)
    /\ render_status.kind = "Err"
    /\ PathMaybeWithLocale(last.path, locale) \notin DOMAIN widget_states

\* C5: in Build mode, when the state of a render-config widget is read and
\* parsed, widget_states gains (or overwrites) exactly one entry, keyed by
\* the locale-qualified widget path, whose value is the capsule name the
\* render config gives the path and the raw state that was read.
C5_StateIsRecorded ==
    [][ ( /\ render_mode = "Build" /\ EngineWidgetCalled
          /\ render_status.kind = "Ok"
          /\ ResolvesAtBuild(last') /\ FileParses(last') )
          => LET key == PathMaybeWithLocale(last'.path, locale)
             IN  /\ DOMAIN widget_states' = (DOMAIN widget_states) \cup {key}
                 /\ widget_states'[key] =
                        [capsule_name |-> widget_render_cfg[last'.path],
                         state |-> ParseJson(immutable_store[FileOf(last')].val).val]
                 /\ \A k \in DOMAIN widget_states :
                        k # key => widget_states'[k] = widget_states[k] ]_vars

C5_Witness ==
    /\ EngineWidgetWasCalled /\ ResolvesAtBuild(last) /\ FileParses(last)
    /\ locale # NoLocale
    /\ PathMaybeWithLocale(last.path, locale) \in DOMAIN widget_states
    /\ widget_states[PathMaybeWithLocale(last.path, locale)].state = Num(7)
    /\ Cardinality(DOMAIN widget_states) > 1

\* C6: in Build mode with render_status Ok, calling a widget whose path is
\* not in the render config appends the path to possibly_incremental_paths,
\* returns an empty placeholder and leaves render_status Ok and
\* widget_states unchanged, so that later sibling widgets are still
\* resolved.
C6_AbsentFromRenderConfigIsDeferred ==
    [][ ( /\ render_mode = "Build" /\ EngineWidgetCalled
          /\ render_status.kind = "Ok"
          /\ last'.path \notin DOMAIN widget_render_cfg )
          => /\ possibly_incremental_paths' = Append(possibly_incremental_paths, last'.path)
             /\ last'.returned /\ last'.view = EmptyView
             /\ render_status' = StatusOk
             /\ widget_states' = widget_states ]_vars

\* A widget was deferred and a sibling called after it was resolved.
C6_Witness ==
    /\ render_mode = "Build" /\ EngineWidgetWasCalled
    /\ last.pre.possibly_incremental_paths # <<>>
    /\ last.pre.possibly_incremental_paths[1][1] = last.path[1]
    /\ ResolvesAtBuild(last)
    /\ last.view.kind = "widget"
    /\ render_status = StatusOk

\* C7: within a build pass of a page, once render_status has become
\* Cancelled or Err no later widget call of the pass writes it again.
C7_RenderStatusSetAtMostOnce ==
    [][ (render_mode = "Build" /\ Invoked /\ render_status.kind # "Ok")
          => render_status' = render_status ]_vars

\* A sibling was called after the status had been set, with a state file
\* that would have set another status.
C7_Witness ==
    /\ render_mode = "Build" /\ EngineWidgetWasCalled
    /\ last.pre.render_status.kind = "Err"
    /\ last.path \in DOMAIN widget_render_cfg
    /\ FileRead(last) /\ ~FileParses(last)
    /\ render_status = last.pre.render_status
    /\ render_status.err.type = "StoreError"

\* C8: in Request mode a widget call renders the widget from widget_states
\* when the locale-qualified path is there as Ok, and appends the path to
\* unresolved_widget_accumulator and returns an empty placeholder if and
\* only if the path is absent from widget_states.
C8_RequestRendersOrAccumulates ==
    [][ (render_mode = "Request" /\ EngineWidgetCalled)
          => LET key == PathMaybeWithLocale(last'.path, locale)
                 present == key \in DOMAIN widget_states
                 c == last'.site.capsule
             IN  /\ last'.returned
                 /\ widget_states' = widget_states
                 /\ present => unresolved_widget_accumulator' = unresolved_widget_accumulator
                 /\ ~present => unresolved_widget_accumulator' =
                                    Append(unresolved_widget_accumulator, last'.path)
                 /\ (last'.view = EmptyView) <=> ~present
                 /\ (present /\ widget_states[key].ok /\ ~capsules[c].takes_state)
                        => last'.view = StatelessWidgetView(c)
                 /\ ( /\ present /\ widget_states[key].ok /\ capsules[c].takes_state
                      /\ widget_states[key].state.state.t = "num" )
                        => last'.view =
                               WidgetView(c, MakeRx(widget_states[key].state.state.v)) ]_vars

\* A widget was left unresolved and a sibling called after it was rendered
\* with its state.
C8_Witness ==
    /\ render_mode = "Request" /\ EngineWidgetWasCalled
    /\ unresolved_widget_accumulator # <<>>
    /\ last.pre.unresolved_widget_accumulator = unresolved_widget_accumulator
    /\ last.view.kind = "widget"
    /\ capsules[last.site.capsule].takes_state

\* The call sites of a stack of frames.
SitesOf(frames) == UNION { frames[i] : i \in DOMAIN frames }

\* What C9 asks of a call whose widget resolved to error data: the view is
\* the widget-position error view of that server error, and the page goes
\* on: no panic, nothing accumulated or fetched, the other widgets still to
\* be called.
ServerErrorView(status, msg) ==
    [kind |-> "error", pos |-> "Widget", ctx |-> "Full",
     err |-> [type |-> "ServerError", status |-> status, message |-> msg]]

RendersErrorInPlace(status, msg) ==
    /\ last'.returned /\ ~panicked'
    /\ last'.view = ServerErrorView(status, msg)
    /\ UNCHANGED <<render_status, unresolved_widget_accumulator, spawned_fetches>>
    /\ SitesOf(todo') = SitesOf(todo) \ {last'.site}

C10_NoWidgetsOutsideBuildAndRequest ==
    (side = "engine" /\ render_mode \in {"Head", "Error", "Headers"} /\ last.n > 0)
        => (panicked /\ ~last.returned)

(***************************************************************************)
(* Properties of the request-time pass loop (SpecRequest)                  *)
(***************************************************************************)
\* C11, as stated: for an acyclic widget tree of nesting depth D (widgets
\* that contain none have depth 1), the request-mode pass loop reaches a
\* pass with an empty unresolved accumulator within D passes.
C11_FixedPointWithinDepthPasses ==
    (render_mode = "Request" /\ Acyclic(children) /\ outcome = "done")
        => pass <= (IF TreeDepth = 0 THEN 1 ELSE TreeDepth)

\* C11, amended: the loop reaches a pass with an empty unresolved
\* accumulator within D + 1 passes: each pass resolves at most one more
\* level of nesting, so all states are known after the fetch of pass D, and
\* no pass after pass D + 1 is started.
C11_FixedPointWithinDepthPlusOnePasses ==
    (render_mode = "Request" /\ Acyclic(children))
        => /\ pass <= TreeDepth + 1
           /\ (pass = TreeDepth + 1 /\ todo = <<>>) => unresolved_widget_accumulator = <<>>

\* A tree of depth 2 whose loop ended in its third pass.
C11_Witness ==
    /\ render_mode = "Request" /\ Acyclic(children)
    /\ TreeDepth = 2 /\ pass = 3 /\ outcome = "done"
    /\ last.view.kind = "widget" /\ last.site.capsule = "B"

\* C12: also for widgets that contain themselves, directly or through other
\* widgets, resolution does not run forever: the render of every pass and
\* the pass loop end, with the page resolved or the failure reported.
C12_CyclicResolutionTerminates == <>(outcome # "rendering" \/ panicked)

(***************************************************************************)
(* Properties of the build driver's pass loop (SpecBuild)                  *)
(***************************************************************************)
\* The call sites reached by a construction in which every widget renders:
\* those of the page and those of the views of the non-delayed widgets.
RECURSIVE SitesCalled(_, _, _)
SitesCalled(ch, sites, fuel) ==
    LET below == UNION { ch[s.capsule] : s \in { t \in sites : ~t.delayed } }
    IN  IF fuel = 0 \/ below \subseteq sites THEN sites
        ELSE SitesCalled(ch, sites \cup below, fuel - 1)

WidgetsOfPage ==
    { s \in SitesCalled(children, page_sites, Cardinality(CapsuleNames)) : ~s.delayed }

\* A step of the driver at the end of a pass.
PassEnds == todo = <<>> /\ (outcome' # outcome \/ pass' # pass)

C19_RescheduledOnlyIfOptedIn ==
    [][ /\ (render_mode = "Build" /\ PassEnds /\ render_status.kind = "Cancelled")
            => /\ outcome' = IF template.can_be_rescheduled THEN "rescheduled" ELSE "error"
               /\ template = TemplateInnerNew => outcome' = "error"
        /\ (outcome' = "rescheduled" /\ outcome # "rescheduled")
            => (render_status.kind = "Cancelled" /\ template.can_be_rescheduled) ]_vars

\* A cancelled build of a page whose template is as created ended with an
\* error.
C19_Witness ==
    /\ render_mode = "Build" /\ render_status = StatusCancelled
    /\ template = TemplateInnerNew
    /\ outcome = "error"

\* The non-delayed widgets of the page whose capsule uses request state or
\* revalidation.
RequestTimeWidgets ==
    { s \in WidgetsOfPage :
        capsules[s.capsule].uses_request_state \/ capsules[s.capsule].revalidates }

C18_WidgetEntriesNeverHeadOnly ==
    side = "client"
        => \A url \in FullPaths(locale) :
               Contains(state_store, url) \notin {"Head", "HeadNoState"}

(***************************************************************************)
(* The widget state lookup over all shapes of store entries                *)
(***************************************************************************)
\* PssEntry: every combination of PssState and head.
PssEntries ==
    { [state |-> st, head |-> h] :
        st \in {PssStateNone, PssStateNever, PssStateSome(MakeRx(Num(7)))},
        h \in {HeadNone, HeadSome(<<>>)} }

\* The widget paths that may have an entry at the start: the page's widget
\* A/x and the widget B/y of A's view.
StoredPaths == { <<"A", Slash, "x">>, <<"B", Slash, "y">> }

\* Browser: the store maps some of the widget paths to entries of any shape
\* and may hold a preloaded state for the page's widget.
InitStored ==
    /\ side = "client" /\ render_mode = "Client"
    /\ InitCommon
    /\ widget_render_cfg = EmptyMap /\ immutable_store = EmptyMap
    /\ widget_states = EmptyMap
    /\ \E map \in PartialFns({ PathMaybeWithLocale(p, locale) : p \in StoredPaths }, PssEntries),
          pre \in PartialFns({PathMaybeWithLocale(<<"A", Slash, "x">>, locale)}, PreloadedData) :
          state_store = [map |-> map, preloaded |-> pre]

SpecStored == InitStored /\ [][Next]_vars

\* The full path of the widget call of this step.
CalledFullPath == PathMaybeWithLocale(last'.path, locale)

\* C17: in the browser, the state lookup of a widget whose path has no held
\* state and whose store entry classifies as Head or HeadNoState fails with
\* ClientInvariantError::InvalidWidgetPssEntry: the widget shows that
\* error's view, not its own view with a state or an empty state, and no
\* fetch is requested; the store is left as it was.
C17_HeadOnlyEntryIsInvalid ==
    [][ ( /\ side = "client" /\ Invoked /\ last'.verdict = "Found"
          /\ capsules[last'.site.capsule].takes_state
          /\ ~GetHeldState(state_store, CalledFullPath).some
          /\ Contains(state_store, CalledFullPath) \in {"Head", "HeadNoState"} )
        => /\ GetWidgetStateNoFetch(state_store, CalledFullPath, EmptyTemplateState, TRUE)
                  = Failed(InvalidWidgetPssEntry, state_store)
           /\ last'.view = HandleWidget(InvalidWidgetPssEntry)
           /\ spawned_fetches' = spawned_fetches
           /\ state_store' = state_store ]_vars

\* A widget whose entry was HeadNoState showed the error's view.
C17_Witness ==
    /\ side = "client" /\ last.n > 0 /\ last.verdict = "Found"
    /\ capsules[last.site.capsule].takes_state
    /\ Contains(last.pre.state_store, PathMaybeWithLocale(last.path, locale)) = "HeadNoState"
    /\ last.view = HandleWidget(InvalidWidgetPssEntry)
    /\ spawned_fetches = {}

(***************************************************************************)
(* The browser's fetch tasks: the future that get_widget_view spawns for a *)
(* widget whose state has to be fetched.  A task is identified by the call *)
(* that spawned it (an element of spawned_fetches).                        *)
(***************************************************************************)
\* Mutant of SpawnLocalScoped: the task outlives the scope.
SpawnLocal(scope_alive) == TRUE

\* spawn_local_scoped: the task is bound to the current scope and runs only
\* while that scope exists.
SpawnLocalScoped(scope_alive) == scope_alive

\* Mutant of PathWithoutLocaleOf: the locale prefix is left on the path.
PathWithoutLocaleKept(path, loc) == path

\* The path the task hands to preload(): the locale prefix is stripped
\* unless the locale is "xx-XX".
PathWithoutLocaleOf(path, loc) ==
    IF loc = NoLocale THEN path ELSE SubSeq(path, 3, Len(path))

\* The store's key of the path a task preloads.
PreloadKey(t) == PathMaybeWithLocale(PathWithoutLocaleOf(t.path, locale), locale)

\* State of a task's preload() call: awaiting, or returned Ok(()) / Err(err).
PreloadPending == [pending |-> TRUE]
PreloadOk == [pending |-> FALSE, ok |-> TRUE]
PreloadErr(err) == [pending |-> FALSE, ok |-> FALSE, err |-> err]

\* What an underlying fetch ends with: page data, or a server error.
FetchResults ==
    { [ok |-> TRUE, data |-> d] : d \in PreloadedData }
        \cup { [ok |-> FALSE, err |-> ClientServerError(404, "not found")] }

FetchCount(url) == IF url \in DOMAIN fetches THEN fetches[url] ELSE 0

\* PageStateStore::declare_dependency: additive and idempotent.
DeclareDependency(deps, widget_path, caller_path) ==
    deps \cup {<<widget_path, caller_path>>}

\* The task starts and calls state_store.preload(): a path the store knows
\* needs no fetch, a path being fetched shares the fetch under way, any
\* other path starts a fetch.
PreloadBegin(t) ==
    /\ side = "client" /\ SpawnLocalScoped(alive) /\ ~panicked /\ todo = <<>>
    /\ t \in spawned_fetches /\ t \notin DOMAIN preloads
    /\ IF Contains(state_store, PreloadKey(t)) # "None"
       THEN /\ preloads' = Insert(preloads, t, PreloadOk)
            /\ UNCHANGED <<in_flight, fetches>>
       ELSE /\ preloads' = Insert(preloads, t, PreloadPending)
            /\ IF PreloadKey(t) \in in_flight
               THEN UNCHANGED <<in_flight, fetches>>
               ELSE /\ in_flight' = in_flight \cup {PreloadKey(t)}
                    /\ fetches' = Insert(fetches, PreloadKey(t), FetchCount(PreloadKey(t)) + 1)
    /\ UNCHANGED <<side, render_mode, locale, capsules, render_status, widget_render_cfg,
                   immutable_store, widget_states, possibly_incremental_paths,
                   unresolved_widget_accumulator, state_store, store_reads,
                   spawned_fetches, todo, last, panicked, appVars, callVars, pageVars, driverVars,
                   alive, settled, dependencies>>

\* The fetch of a path ends: page data is stored as preloaded, and every
\* preload() call that awaits the path returns.  Spawned tasks start before
\* any response arrives.
FetchDone(url, res) ==
    /\ side = "client" /\ SpawnLocalScoped(alive) /\ ~panicked /\ todo = <<>>
    /\ url \in in_flight
    /\ spawned_fetches \subseteq DOMAIN preloads
    /\ in_flight' = in_flight \ {url}
    /\ state_store' =
           IF res.ok
           THEN [state_store EXCEPT !.preloaded = Insert(state_store.preloaded, url, res.data)]
           ELSE state_store
    /\ preloads' =
           [t \in DOMAIN preloads |->
               IF preloads[t].pending /\ PreloadKey(t) = url
               THEN (IF res.ok THEN PreloadOk ELSE PreloadErr(res.err))
               ELSE preloads[t]]
    /\ UNCHANGED <<side, render_mode, locale, capsules, render_status, widget_render_cfg,
                   immutable_store, widget_states, possibly_incremental_paths,
                   unresolved_widget_accumulator, store_reads,
                   spawned_fetches, todo, last, panicked, appVars, callVars, pageVars, driverVars,
                   alive, fetches, settled, dependencies>>

\* The scope is gone: the fetch under way is aborted with its tasks, and
\* nothing becomes of its result.
FetchAborted(url) ==
    /\ side = "client" /\ ~SpawnLocalScoped(alive)
    /\ url \in in_flight
    /\ in_flight' = in_flight \ {url}
    /\ UNCHANGED <<side, render_mode, locale, capsules, render_status, widget_render_cfg,
                   immutable_store, widget_states, possibly_incremental_paths,
                   unresolved_widget_accumulator, state_store, store_reads,
                   spawned_fetches, todo, last, panicked, appVars, callVars, pageVars, driverVars,
                   alive, preloads, fetches, settled, dependencies>>

\* Mutant of FinalView: the dependency is declared as soon as preload()
\* returned Ok(()), whatever the lookup gives.
FinalViewDeclaresEarly(t) ==
    LET r == GetWidgetStateNoFetch(state_store, t.path, EmptyTemplateState, TRUE)
    IN  IF ~preloads[t].ok
        THEN [unreachable |-> FALSE, view |-> HandleWidget(preloads[t].err),
              store |-> state_store, deps |-> dependencies, rendered |-> FALSE]
        ELSE IF ~r.ok
        THEN [unreachable |-> FALSE, view |-> HandleWidget(r.err), store |-> r.store,
              deps |-> DeclareDependency(dependencies, t.path, t.caller_path),
              rendered |-> FALSE]
        ELSE IF r.some
        THEN [unreachable |-> FALSE, view |-> WidgetView(t.capsule, r.rx), store |-> r.store,
              deps |-> DeclareDependency(dependencies, t.path, t.caller_path),
              rendered |-> TRUE]
        ELSE [unreachable |-> TRUE]

\* Mutant of FinalView: a failure leaves the fallback in place.
FinalViewKeepsFallback(t) ==
    LET r == GetWidgetStateNoFetch(state_store, t.path, EmptyTemplateState, TRUE)
    IN  IF ~preloads[t].ok
        THEN [unreachable |-> FALSE, view |-> FallbackView(t.capsule), store |-> state_store,
              deps |-> dependencies, rendered |-> FALSE]
        ELSE IF ~r.ok
        THEN [unreachable |-> FALSE, view |-> FallbackView(t.capsule), store |-> r.store,
              deps |-> dependencies, rendered |-> FALSE]
        ELSE IF r.some
        THEN [unreachable |-> FALSE, view |-> WidgetView(t.capsule, r.rx), store |-> r.store,
              deps |-> DeclareDependency(dependencies, t.path, t.caller_path),
              rendered |-> TRUE]
        ELSE [unreachable |-> TRUE]

\* The task's final view, once preload() has returned: after Ok(()) the
\* state lookup is repeated, and a state declares the dependency and renders
\* the widget; every error becomes the widget's error view.
FinalView(t) ==
    LET r == GetWidgetStateNoFetch(state_store, t.path, EmptyTemplateState, TRUE)
    IN  IF ~preloads[t].ok
        THEN [unreachable |-> FALSE, view |-> HandleWidget(preloads[t].err),
              store |-> state_store, deps |-> dependencies, rendered |-> FALSE]
        ELSE IF ~r.ok
        THEN [unreachable |-> FALSE, view |-> HandleWidget(r.err), store |-> r.store,
              deps |-> dependencies, rendered |-> FALSE]
        ELSE IF r.some
        THEN [unreachable |-> FALSE, view |-> WidgetView(t.capsule, r.rx), store |-> r.store,
              deps |-> DeclareDependency(dependencies, t.path, t.caller_path),
              rendered |-> TRUE]
        ELSE [unreachable |-> TRUE]

\* The rest of the task after preload() returned: view_clone.set(final_view).
\* The widget's view, when rendered, calls its own widgets.
TaskFinish(t) ==
    /\ side = "client" /\ SpawnLocalScoped(alive) /\ ~panicked /\ todo = <<>>
    /\ t \in DOMAIN preloads /\ ~preloads[t].pending
    /\ t \notin DOMAIN settled
    /\ LET f == FinalView(t)
       IN  IF f.unreachable
           THEN /\ panicked' = TRUE
                /\ UNCHANGED <<state_store, settled, dependencies, todo>>
           ELSE /\ panicked' = FALSE
                /\ state_store' = f.store
                /\ dependencies' = f.deps
                /\ settled' = Insert(settled, t, f.view)
                /\ todo' = IF f.rendered /\ children[t.capsule] # {}
                           THEN <<children[t.capsule]>> ELSE <<>>
    /\ UNCHANGED <<side, render_mode, locale, capsules, render_status, widget_render_cfg,
                   immutable_store, widget_states, possibly_incremental_paths,
                   unresolved_widget_accumulator, store_reads,
                   spawned_fetches, last, appVars, callVars, pageVars, driverVars,
                   alive, preloads, in_flight, fetches>>

\* The user goes to another page: the page's scope is destroyed.
Navigate ==
    /\ side = "client" /\ alive /\ ~panicked /\ todo = <<>>
    /\ alive' = FALSE
    /\ UNCHANGED <<side, render_mode, locale, capsules, render_status, widget_render_cfg,
                   immutable_store, widget_states, possibly_incremental_paths,
                   unresolved_widget_accumulator, state_store, store_reads,
                   spawned_fetches, todo, last, panicked, appVars, callVars, pageVars, driverVars,
                   preloads, in_flight, fetches, settled, dependencies>>

\* The page's view calls A.widget("/x") and A.widget("x"), two instances of
\* the widget A/x, and B.widget("y/"); the capsules' views call no widget.
BrowserPageSites ==
    { Site("A", <<Slash, "x">>, FALSE), Site("A", <<"x">>, FALSE),
      Site("B", <<"y", Slash>>, FALSE) }

\* Browser: the page is rendered with a store that holds at most a
\* preloaded state of B/y.
InitBrowser ==
    /\ side = "client" /\ render_mode = "Client"
    /\ locale \in Locales
    /\ capsules \in [CapsuleNames -> ViewKinds]
    /\ page_sites = BrowserPageSites
    /\ children = [c \in CapsuleNames |-> {}]
    /\ template = TemplateInnerNew /\ incremental_capsules = {}
    /\ pass = 1 /\ outcome = "rendering"
    /\ InitNoTasks /\ InitNoCall /\ InitOnePage
    /\ render_status = StatusOk
    /\ widget_render_cfg = EmptyMap /\ immutable_store = EmptyMap
    /\ widget_states = EmptyMap
    /\ possibly_incremental_paths = <<>>
    /\ unresolved_widget_accumulator = <<>>
    /\ store_reads = <<>>
    /\ spawned_fetches = {}
    /\ todo = <<BrowserPageSites>>
    /\ last = [n |-> 0, site |-> Site("", <<>>, FALSE), path |-> <<>>, verdict |-> "none",
               view |-> NoView, returned |-> FALSE, pre |-> [render_status |-> StatusOk]]
    /\ panicked = FALSE
    /\ \E pre \in PartialFns({PathMaybeWithLocale(<<"B", Slash, "y">>, locale)}, PreloadedData) :
          state_store = [map |-> EmptyMap, preloaded |-> pre]

NextBrowser ==
    \/ Widget
    \/ \E t \in spawned_fetches : PreloadBegin(t)
    \/ \E url \in in_flight, res \in FetchResults : FetchDone(url, res)
    \/ \E url \in in_flight : FetchAborted(url)
    \/ \E t \in DOMAIN preloads : TaskFinish(t)
    \/ Navigate

SpecBrowser == InitBrowser /\ [][NextBrowser]_vars

\* C14: the widget instances that resolve the same path at the same time,
\* while the store has no state for it, cause exactly one underlying fetch
\* for the path, and all of them end with that fetch's result: the same
\* view of the widget, or the same error.
C14_OneFetchSharedByAll ==
    side = "client"
        => /\ \A url \in DOMAIN fetches : fetches[url] = 1
           /\ \A t \in DOMAIN preloads : FetchCount(PreloadKey(t)) = 1
           /\ \A t1 \in DOMAIN settled, t2 \in DOMAIN settled :
                  t1.path = t2.path => settled[t1] = settled[t2]

\* C15: a browser widget whose path has no held and no preloaded state
\* shows its capsule's fallback while its fetch is pending; when the fetch
\* has finished its view is set once, to the widget's view if a state came
\* of it and to a widget error view otherwise, and is never set again.
C15_FallbackThenSetOnce ==
    [][ /\ \A t \in spawned_fetches' \ spawned_fetches :
               /\ ~GetHeldState(state_store, t.path).some
               /\ Contains(state_store, t.path) = "None"
               /\ last'.view = FallbackView(t.capsule)
               /\ t \notin DOMAIN settled'
        /\ \A t \in DOMAIN settled :
               t \in DOMAIN settled' /\ settled'[t] = settled[t]
        /\ \A t \in DOMAIN settled' \ DOMAIN settled :
               /\ t \in spawned_fetches
               /\ t \in DOMAIN preloads /\ ~preloads[t].pending
               /\ PreloadKey(t) \notin in_flight
               /\ settled'[t].kind \in {"widget", "error"}
               /\ settled'[t].kind = "widget"
                      <=> ( /\ preloads[t].ok
                            /\ GetWidgetStateNoFetch(state_store, t.path,
                                                     EmptyTemplateState, TRUE).ok )
               /\ settled'[t].kind = "widget"
                      => settled'[t] =
                             WidgetView(t.capsule, GetHeldState(state_store', t.path).rx)
               /\ ~preloads[t].ok => settled'[t] = HandleWidget(preloads[t].err) ]_vars

\* One fetched widget ended with its view and another with an error view.
C15_Witness ==
    /\ side = "client"
    /\ \E t1 \in DOMAIN settled, t2 \in DOMAIN settled :
          /\ settled[t1].kind = "widget"
          /\ settled[t2].kind = "error" /\ ~preloads[t2].ok

\* C16: once the page's scope is destroyed, the continuation of a pending
\* widget fetch has no effect: no widget's view is set (to the widget's view
\* or to an error view), no dependency is declared and the store is not
\* written.
C16_NoEffectAfterNavigation ==
    [][ ~alive' => /\ settled' = settled
                   /\ dependencies' = dependencies
                   /\ state_store' = state_store
                   /\ spawned_fetches' = spawned_fetches ]_vars

\* The user left while the fetch of a widget was pending; the fetch is over
\* and the widget's view was never set.
C16_Witness ==
    /\ side = "client" /\ ~alive
    /\ in_flight = {}
    /\ \E t \in DOMAIN preloads :
          /\ preloads[t].pending
          /\ FetchCount(PreloadKey(t)) = 1
          /\ t \notin DOMAIN settled
    /\ dependencies = {}

\* The errors get_widget_state_no_fetch returns by itself.
IsLookupError(e) ==
    \/ e = NoState
    \/ e = InvalidWidgetPssEntry
    \/ e.type = "ServerError"
    \/ (e.type = "InvariantError" /\ e.err = "InvalidState")

\* C29: a widget call whose state lookup returned NoState, InvalidState,
\* ServerError or InvalidWidgetPssEntry leaves the state store as it found
\* it: no head and no state registered, no preloaded entry consumed.
C29_ErrorLeavesStoreUnchanged ==
    [][ ( /\ Invoked /\ last'.returned
          /\ last'.view.kind = "error"
          /\ IsLookupError(last'.view.err) )
        => state_store' = state_store ]_vars

\* C30: the edge from the widget's locale-qualified path to the calling
\* page's path is declared exactly when the widget's fetch succeeded and the
\* fetched state was then retrieved; when the fetch failed, or the fetched
\* state is invalid or an error, the widget shows an error view and no edge
\* is declared.  Nothing else declares an edge.
C30_EdgeIffFetchedStateRetrieved ==
    [][ /\ \A t \in DOMAIN settled' \ DOMAIN settled :
               LET retrieved ==
                       /\ preloads[t].ok
                       /\ GetWidgetStateNoFetch(state_store, t.path,
                                                EmptyTemplateState, TRUE).ok
                   edge == <<PathMaybeWithLocale(SitePath(t.site), locale), CallerPath>>
               IN  /\ retrieved => /\ dependencies' = dependencies \cup {edge}
                                    /\ settled'[t].kind = "widget"
                   /\ ~retrieved => /\ dependencies' = dependencies
                                     /\ settled'[t].kind = "error"
        /\ DOMAIN settled' = DOMAIN settled => dependencies' = dependencies ]_vars

\* One widget's fetched state was retrieved and its edge declared; another's
\* fetch succeeded with a state that is invalid, and it has no edge.
C30_Witness ==
    /\ side = "client"
    /\ \E t1 \in DOMAIN settled, t2 \in DOMAIN settled :
          /\ settled[t1].kind = "widget"
          /\ <<t1.path, t1.caller_path>> \in dependencies
          /\ settled[t2].kind = "error" /\ preloads[t2].ok
          /\ <<t2.path, t2.caller_path>> \notin dependencies

\* C26: on the engine, in Build and in Request mode, a delayed widget call
\* returns the capsule's fallback view and leaves render_status,
\* widget_states, possibly_incremental_paths and
\* unresolved_widget_accumulator as they were; it reads no state file and
\* writes no state to the store.
C26_DelayedWidgetIsPlaceholderOnly ==
    [][ ( /\ side = "engine" /\ render_mode \in {"Build", "Request"}
          /\ Invoked /\ last'.site.delayed )
        => /\ last'.returned
           /\ last'.view = FallbackView(last'.site.capsule)
           /\ render_status' = render_status
           /\ widget_states' = widget_states
           /\ possibly_incremental_paths' = possibly_incremental_paths
           /\ unresolved_widget_accumulator' = unresolved_widget_accumulator
           /\ store_reads' = store_reads
           /\ state_store' = state_store ]_vars

\* A delayed call in Build mode, for a path outside the render config,
\* returned the fallback and nothing was deferred.
C26_Witness ==
    /\ side = "engine" /\ render_mode = "Build"
    /\ last.n > 0 /\ last.site.delayed /\ last.returned
    /\ last.path \notin DOMAIN widget_render_cfg
    /\ last.view = FallbackView("A")
    /\ possibly_incremental_paths = last.pre.possibly_incremental_paths
    /\ render_status = last.pre.render_status

(***************************************************************************)
(* Widget calls with any path                                              *)
(***************************************************************************)
\* Longest sub-path, in characters.
MaxPathLen == 3

PathChars == {"x", "y", Slash}

PathsUpTo(n) == UNION { [1..k -> PathChars] : k \in 0..n }

\* Sub-paths of a capsule: without a leading and without a trailing slash.
SubPaths ==
    { p \in PathsUpTo(MaxPathLen) : p = <<>> \/ (p[1] # Slash /\ p[Len(p)] # Slash) }

\* A request for a page whose view makes one widget call, with any path.
InitPaths ==
    /\ \E c \in CapsuleNames, q \in PathsUpTo(MaxPathLen + 1), d \in BOOLEAN :
          page_sites = {Site(c, q, d)}
    /\ children = [c \in CapsuleNames |-> {}]
    /\ InitFirstPass

SpecPaths == InitPaths /\ [][Next]_vars

\* C25: for a capsule with path c and a sub-path p, the calls with p, with
\* "/" before p and with "/" after p all resolve to the widget path c/p;
\* for the empty p, that is for the calls with "" and with "/", to c itself
\* with no trailing slash.
C25_WidgetPathNormalized ==
    [][ Invoked =>
          \A p \in SubPaths :
              last'.site.path \in {p, <<Slash>> \o p, p \o <<Slash>>}
                  => last'.path = IF p = <<>> THEN CapsulePath(last'.site.capsule)
                                  ELSE CapsulePath(last'.site.capsule) \o <<Slash>> \o p ]_vars

\* The call B.widget("/") resolved to the index widget B.
C25_Witness ==
    /\ last.n > 0 /\ last.returned
    /\ last.site = Site("B", <<Slash>>, FALSE)
    /\ last.path = <<"B">>
    /\ unresolved_widget_accumulator = << <<"B">> >>

\* C27: in Request mode no widget call changes widget_states; a call for a
\* path that widget_states lacks accumulates it and the path stays absent for
\* the rest of the pass; widget_states changes only when the driver merges
\* the fetched states of the accumulated paths at the end of a pass, which
\* starts the next pass; so a widget rendered from widget_states was not
\* accumulated in the same pass, and is rendered in the second pass at the
\* earliest.
C27_PassesAreSequential ==
    [][ render_mode = "Request" =>
          /\ Invoked => (widget_states' = widget_states /\ pass' = pass)
          /\ (Invoked /\ unresolved_widget_accumulator' # unresolved_widget_accumulator)
                 => /\ unresolved_widget_accumulator'
                          = Append(unresolved_widget_accumulator, last'.path)
                    /\ PathMaybeWithLocale(last'.path, locale) \notin DOMAIN widget_states'
          /\ widget_states' # widget_states
                 => /\ todo = <<>> /\ pass' = pass + 1
                    /\ DOMAIN widget_states' = DOMAIN widget_states \cup
                           { PathMaybeWithLocale(q, locale) :
                                q \in Range(unresolved_widget_accumulator) }
                    /\ \A k \in DOMAIN widget_states : widget_states'[k] = widget_states[k]
          /\ (Invoked /\ last'.view.kind \in {"widget", "error"})
                 => /\ PathMaybeWithLocale(last'.path, locale) \in DOMAIN widget_states
                    /\ last'.path \notin Range(unresolved_widget_accumulator')
                    /\ pass > 1 ]_vars

\* The widget A/x, accumulated in the first pass, is rendered from
\* widget_states in the second.
C27_Witness ==
    /\ render_mode = "Request" /\ pass = 2 /\ outcome = "rendering"
    /\ last.n > 0 /\ last.returned
    /\ last.site = Site("A", <<Slash, "x">>, FALSE)
    /\ last.view.kind = "widget"
    /\ last.pre.widget_states = widget_states
    /\ <<"A", Slash, "x">> \notin Range(unresolved_widget_accumulator)

(***************************************************************************)
(* Widget resolution as a whole: the renders of the engine and of the      *)
(* browser, with the browser's fetch tasks                                 *)
(***************************************************************************)
SpecResolve == (Init \/ InitBrowser) /\ [][NextBrowser]_vars

\* A view the user's error handler made for a widget.
IsWidgetErrorView(v) == v.kind = "error" /\ v.ctx = "Full" /\ v.pos = "Widget"

\* The widget call of this step, in Build mode: it returns no error view,
\* and a widget of the render config that is safe to build and yields no
\* view of its own has its error recorded in render_status.
BuildCallEndsWell ==
    LET c == last'.site.capsule
        resolved == /\ ~last'.site.delayed /\ render_status.kind = "Ok"
                    /\ last'.path \in DOMAIN widget_render_cfg
                    /\ ~capsules[c].uses_request_state /\ ~capsules[c].revalidates
    IN  /\ last'.view.kind # "error"
        /\ (resolved /\ last'.view.kind # "widget") => render_status'.kind = "Err"

\* In Request mode: a widget that widget_states holds is rendered, or shows
\* the error view of its error data or of the error of its render.
RequestCallEndsWell ==
    LET c == last'.site.capsule
        full_path == PathMaybeWithLocale(last'.path, locale)
        held == ~last'.site.delayed /\ full_path \in DOMAIN widget_states
    IN  held =>
          /\ last'.view.kind \in {"widget", "error"}
          /\ ~widget_states[full_path].ok => last'.view.err.type = "ServerError"
          /\ (widget_states[full_path].ok
                 /\ ~RenderWidgetForTemplateServer(state_store, c, full_path,
                                                   widget_states[full_path].state).ok)
                => last'.view.kind = "error"

\* In the browser: a path the router does not find and a failed render show
\* the error's view.
ClientCallEndsWell ==
    LET c == last'.site.capsule
        full_path == PathMaybeWithLocale(last'.path, locale)
        render == RenderWidgetForTemplateClient(c, full_path)
    IN  /\ last'.view.kind \in {"widget", "fallback", "error"}
        /\ last'.verdict # "Found" => last'.view.kind = "error"
        /\ (last'.verdict = "Found" /\ ~render.ok)
              => (last'.view.kind = "error" /\ last'.view.err = render.err)

CallEndsWell ==
    /\ last'.returned
    /\ last'.view.kind \in {"widget", "fallback", "empty", "error"}
    /\ last'.view.kind = "error" => IsWidgetErrorView(last'.view)
    /\ render_mode = "Build" => BuildCallEndsWell
    /\ render_mode = "Request" => RequestCallEndsWell
    /\ render_mode = "Client" => ClientCallEndsWell

TasksEndWell ==
    \A t \in DOMAIN settled' \ DOMAIN settled :
        /\ settled'[t].kind \in {"widget", "error"}
        /\ settled'[t].kind = "error" => IsWidgetErrorView(settled'[t])

MapKey(kt, v) == [t |-> kt, v |-> v]

KeysOfType(kt) ==
    CASE kt = "str"   -> { MapKey("str", x) : x \in {"a", "b", "c"} }
      [] kt = "int"   -> { MapKey("int", n) : n \in {1, 2, 3} }
      [] kt = "tuple" -> { MapKey("tuple", q) : q \in {<<1, 2>>, <<2, 1>>, <<1, 1>>} }

KeyTypes == {"str", "int", "tuple"}

\* Values of the type V of a map: numbers or a string.
ValuesOfType(vt) == IF vt = "num" THEN {Num(7), Num(9)} ELSE {Str("s")}

ValueTypes == {"num", "str"}

\* RxHashMap<K, V>(HashMap<K, V>)
RxHashMapOf(kt, vt, members) == [t |-> "map", kt |-> kt, vt |-> vt, members |-> members]

RxHashMaps ==
    UNION { { RxHashMapOf(kt, vt, f) : f \in PartialFns(KeysOfType(kt), ValuesOfType(vt)) } :
              kt \in KeyTypes, vt \in ValueTypes }

\* State values: of an unreactive type (a number, a string) and RxHashMaps.
UnreactiveValues == {Num(7), Num(9), Str("s")}

StateValues == UnreactiveValues \cup RxHashMaps

\* The declared type S of a state value.
TypeOf(v) ==
    IF v.t = "map" THEN [t |-> "map", kt |-> v.kt, vt |-> v.vt] ELSE [t |-> v.t]

\* create_signal(v) and Signal::get_clone
CreateSignal(v) == [signal |-> v]
GetClone(sig) == sig.signal

\* Mutant of RxHashMapMakeRx: the entries are not carried over.
RxHashMapMakeRxEmpty(m) ==
    [kt |-> m.kt, vt |-> m.vt, map |-> CreateSignal([k \in {} |-> CreateSignal(Null)])]

\* RxHashMap::make_rx: a signal of a map of signals.
RxHashMapMakeRx(m) ==
    [kt |-> m.kt, vt |-> m.vt,
     map |-> CreateSignal([k \in DOMAIN m.members |-> CreateSignal(m.members[k])])]

\* RxHashMapRx::make_unrx
RxHashMapRxMakeUnrx(rx) ==
    LET map == GetClone(rx.map)
    IN  RxHashMapOf(rx.kt, rx.vt, [k \in DOMAIN map |-> GetClone(map[k])])

\* make_rx and make_unrx as the state's type dispatches them.
MakeRxOf(v) == IF v.t = "map" THEN RxHashMapMakeRx(v) ELSE MakeRx(v)
MakeUnrxOf(ty, rx) == IF ty.t = "map" THEN RxHashMapRxMakeUnrx(rx) ELSE MakeUnrx(rx)

\* What an applied state function left in `result`.
Returned(op, val) == [kind |-> "returned", op |-> op, val |-> val]
Panicked(op) == [kind |-> "panicked", op |-> op]

\* The fields of a render, which the state functions leave alone.
renderVars == <<side, render_mode, locale, capsules, render_status, widget_render_cfg,
                immutable_store, widget_states, possibly_incremental_paths,
                unresolved_widget_accumulator, state_store, store_reads,
                spawned_fetches, todo, last, panicked>>

\* v.make_rx().make_unrx()
ApplyMakeUnrx ==
    /\ given \in StateValues
    /\ result' = Returned("make_unrx", MakeUnrxOf(TypeOf(given), MakeRxOf(given)))
    /\ UNCHANGED <<given, renderVars, appVars, pageVars, driverVars, taskVars>>

\* A JSON text: an atom, or an object of atoms by key.
JsonAtom(atom) == [obj |-> FALSE, atom |-> atom, members |-> EmptyMap]
JsonObject(members) == [obj |-> TRUE, atom |-> "", members |-> members]

\* How serde_json writes a number or a string.
AtomText(v) ==
    CASE v = Num(7)   -> "7"
      [] v = Num(9)   -> "9"
      [] v = Str("s") -> "\"s\""
      [] v = Null     -> "null"

\* How serde_json writes the key of a map: a string as it is, an integer
\* as its digits, and anything else not at all.
KeyText(k) ==
    CASE k.t = "str" -> [ok |-> TRUE, text |-> k.v]
      [] k.t = "int" -> [ok |-> TRUE, text |-> CASE k.v = 1 -> "1" [] k.v = 2 -> "2" [] k.v = 3 -> "3"]
      [] OTHER       -> [ok |-> FALSE, err |-> "key must be a string"]

\* serde_json::to_string
SerdeJsonToString(v) ==
    IF v.t # "map" THEN [ok |-> TRUE, text |-> JsonAtom(AtomText(v))]
    ELSE IF \E k \in DOMAIN v.members : ~KeyText(k).ok
         THEN [ok |-> FALSE, err |-> "key must be a string"]
         ELSE LET texts == { KeyText(k).text : k \in DOMAIN v.members }
                  KeyOf(x) == CHOOSE k \in DOMAIN v.members : KeyText(k).text = x
              IN  [ok |-> TRUE,
                   text |-> JsonObject([x \in texts |-> AtomText(v.members[KeyOf(x)])])]

\* Result::unwrap on what to_string returned, as freeze applies it.
Unwrap(r) == IF r.ok THEN [panicked |-> FALSE, text |-> r.text]
             ELSE [panicked |-> TRUE, err |-> r.err]

\* Freeze for UnreactiveStateWrapper<T>
UnreactiveFreeze(rx) == Unwrap(SerdeJsonToString(rx.wrapped))

\* Freeze for RxHashMapRx<K, V>
RxHashMapRxFreeze(rx) == Unwrap(SerdeJsonToString(RxHashMapRxMakeUnrx(rx)))

FreezeOf(ty, rx) == IF ty.t = "map" THEN RxHashMapRxFreeze(rx) ELSE UnreactiveFreeze(rx)

\* serde_json::from_str::<Value> on an atom.
ParseAtom(atom) ==
    CASE atom = "7"     -> [ok |-> TRUE, val |-> Num(7)]
      [] atom = "9"     -> [ok |-> TRUE, val |-> Num(9)]
      [] atom = "\"s\"" -> [ok |-> TRUE, val |-> Str("s")]
      [] atom = "null"  -> [ok |-> TRUE, val |-> Null]
      [] OTHER          -> [ok |-> FALSE, err |-> "expected value"]

\* TemplateState::from_str on a frozen state.
FromStr(text) ==
    IF ~text.obj
    THEN LET r == ParseAtom(text.atom)
         IN  IF r.ok THEN [ok |-> TRUE, val |-> TemplateStateFromValue(r.val)]
             ELSE [ok |-> FALSE, err |-> r.err]
    ELSE IF \E x \in DOMAIN text.members : ~ParseAtom(text.members[x]).ok
         THEN [ok |-> FALSE, err |-> "expected value"]
         ELSE [ok |-> TRUE,
               val |-> TemplateStateFromValue(
                          [t |-> "object",
                           members |-> [x \in DOMAIN text.members |->
                                           ParseAtom(text.members[x]).val]])]

\* How serde reads the key of an object as a K.
ParseKey(kt, x) ==
    CASE kt = "str" -> [ok |-> TRUE, key |-> MapKey("str", x)]
      [] kt = "int" ->
            (CASE x = "1"  -> [ok |-> TRUE, key |-> MapKey("int", 1)]
               [] x = "2"  -> [ok |-> TRUE, key |-> MapKey("int", 2)]
               [] x = "3"  -> [ok |-> TRUE, key |-> MapKey("int", 3)]
               [] OTHER    -> [ok |-> FALSE, err |-> "invalid type"])
      [] OTHER -> [ok |-> FALSE, err |-> "invalid type"]

\* TemplateState::change_type::<S>().into_concrete() for the state type S.
IntoConcreteAs(ty, ts) ==
    IF ty.t # "map"
    THEN IF ts.state.t = ty.t THEN [ok |-> TRUE, val |-> ts.state]
         ELSE [ok |-> FALSE, err |-> "invalid type"]
    ELSE IF ts.state.t # "object" THEN [ok |-> FALSE, err |-> "invalid type"]
    ELSE LET obj == ts.state.members
         IN  IF \/ \E x \in DOMAIN obj : ~ParseKey(ty.kt, x).ok
                \/ \E x \in DOMAIN obj : obj[x].t # ty.vt
             THEN [ok |-> FALSE, err |-> "invalid type"]
             ELSE LET keys == { ParseKey(ty.kt, x).key : x \in DOMAIN obj }
                      TextOf(k) == CHOOSE x \in DOMAIN obj : ParseKey(ty.kt, x).key = k
                  IN  [ok |-> TRUE,
                       val |-> RxHashMapOf(ty.kt, ty.vt, [k \in keys |-> obj[TextOf(k)]])]

\* TemplateState::from_str(v.make_rx().freeze()), then into_concrete
ApplyThaw ==
    /\ given \in StateValues
    /\ LET ty     == TypeOf(given)
           frozen == FreezeOf(ty, MakeRxOf(given))
       IN  IF frozen.panicked THEN result' = Panicked("freeze")
           ELSE LET ts == FromStr(frozen.text)
                IN  IF ~ts.ok THEN result' = Returned("from_str", ts)
                    ELSE result' = Returned("into_concrete", IntoConcreteAs(ty, ts.val))
    /\ UNCHANGED <<given, renderVars, appVars, pageVars, driverVars, taskVars>>

\* No page is being rendered: a state value is about to be handed to a state
\* function.
InitState ==
    /\ given \in StateValues
    /\ result = Nothing
    /\ side = "engine"
    /\ render_mode = "Request"
    /\ locale = "en-US"
    /\ capsules = [c \in CapsuleNames |->
                       [uses_request_state |-> FALSE, revalidates |-> FALSE,
                        takes_state |-> TRUE]]
    /\ page_sites = {} /\ children = [c \in CapsuleNames |-> {}]
    /\ template = TemplateInnerNew /\ incremental_capsules = {}
    /\ pass = 1 /\ outcome = "rendering"
    /\ InitNoTasks /\ InitOnePage
    /\ render_status = StatusOk
    /\ widget_render_cfg = EmptyMap /\ immutable_store = EmptyMap
    /\ widget_states = EmptyMap
    /\ possibly_incremental_paths = <<>>
    /\ unresolved_widget_accumulator = <<>>
    /\ state_store = EmptyStore
    /\ store_reads = <<>>
    /\ spawned_fetches = {}
    /\ todo = <<>>
    /\ last = [n |-> 0, site |-> Site("", <<>>, FALSE), path |-> <<>>, verdict |-> "none",
               view |-> NoView, returned |-> FALSE, pre |-> [render_status |-> StatusOk]]
    /\ panicked = FALSE

NextState == ApplyMakeUnrx \/ ApplyThaw

SpecState == InitState /\ [][NextState]_vars

\* C21: for every state value v of an unreactive type and every RxHashMap v,
\* v.make_rx().make_unrx() is v: for a map, the same keys and the same value
\* at each key.
C21_MakeUnrxInvertsMakeRx ==
    (result.kind = "returned" /\ result.op = "make_unrx") =>
        /\ result.val = given
        /\ given.t = "map" =>
              /\ DOMAIN result.val.members = DOMAIN given.members
              /\ \A k \in DOMAIN given.members : result.val.members[k] = given.members[k]

\* A map of two entries with different values went through make_rx and
\* make_unrx.
C21_Witness ==
    /\ result.kind = "returned" /\ result.op = "make_unrx"
    /\ given.t = "map"
    /\ \E j, k \in DOMAIN given.members : given.members[j] # given.members[k]

\* C22 as claimed: for every state value v,
\* from_str(freeze(make_rx(v))).into_concrete() is Ok(v).
C22_FreezeThawRoundTrip ==
    (result.kind # "nothing" /\ result.op # "make_unrx") =>
        result = Returned("into_concrete", [ok |-> TRUE, val |-> given])

\* What does hold: freezing panics exactly for a map with an entry whose key
\* serde_json cannot write as a string, and every other state value comes
\* back as it was.
C22_FreezePanicsOnUnwritableKey ==
    (result.kind # "nothing" /\ result.op # "make_unrx") =>
        IF given.t = "map" /\ given.kt = "tuple" /\ DOMAIN given.members # {}
        THEN result = Panicked("freeze")
        ELSE result = Returned("into_concrete", [ok |-> TRUE, val |-> given])

\* A map with integer keys was frozen and read back.
C22_Witness ==
    /\ result.kind = "returned" /\ result.op = "into_concrete"
    /\ given.t = "map" /\ given.kt = "int" /\ DOMAIN given.members # {}

(***************************************************************************)
(* TemplateInner::head_with_state                                          *)
(***************************************************************************)
\* The head the user's function makes of a state.
HeadView(state) == [kind |-> "head", state |-> state]

\* The closure head_with_state stores as the template's head function,
\* applied to the state of the page.
HeadWithState(template_state) ==
    IF IsEmpty(template_state) THEN [ok |-> FALSE, err |-> NoState]
    ELSE LET state == IntoConcrete(template_state)
         IN  IF ~state.ok THEN [ok |-> FALSE, err |-> InvalidState(state.err)]
             ELSE [ok |-> TRUE, view |-> HeadView(state.val)]

\* The states a page's head may be rendered with.
HeadStates == { TemplateStateFromValue(v) : v \in {Null, Num(7), Str("s")} }

\* The head of a page is rendered with the state in `given`.
RenderHead ==
    /\ render_mode = "Head" /\ given \in HeadStates /\ result = Nothing
    /\ result' = Returned("head", HeadWithState(given))
    /\ UNCHANGED <<given, renderVars, appVars, pageVars, driverVars, taskVars>>

\* A page without widgets whose head is about to be rendered.
InitHead ==
    /\ side = "engine" /\ render_mode = "Head"
    /\ given \in HeadStates /\ result = Nothing
    /\ locale \in Locales
    /\ capsules \in [CapsuleNames -> ViewKinds]
    /\ page_sites = {} /\ children = [c \in CapsuleNames |-> {}]
    /\ template = TemplateInnerNew /\ incremental_capsules = {}
    /\ pass = 1 /\ outcome = "rendering"
    /\ InitNoTasks /\ InitOnePage
    /\ render_status = StatusOk
    /\ widget_render_cfg = EmptyMap /\ immutable_store = EmptyMap
    /\ widget_states = EmptyMap
    /\ possibly_incremental_paths = <<>>
    /\ unresolved_widget_accumulator = <<>>
    /\ state_store = EmptyStore
    /\ store_reads = <<>>
    /\ spawned_fetches = {}
    /\ todo = <<>>
    /\ last = [n |-> 0, site |-> Site("", <<>>, FALSE), path |-> <<>>, verdict |-> "none",
               view |-> NoView, returned |-> FALSE, pre |-> [render_status |-> StatusOk]]
    /\ panicked = FALSE

NextHead == Widget \/ RenderHead

\* The widgets of a page and its head, each rendered with its state.
SpecHead == (Init \/ InitHead) /\ [][NextHead]_vars

\* A state that is there and is not of the declared type.
Undeserializable(ts) == ~IsEmpty(ts) /\ ~IntoConcrete(ts).ok

\* The state the path holds in the store.
StateOf(store, url) == EntryOf(store, url).state

\* The widget call of this step reaches the state lookup of a capsule whose
\* view takes state, for a path the store holds no state of.
LooksUpState ==
    /\ Invoked /\ last'.returned
    /\ capsules[last'.site.capsule].takes_state
    /\ ~GetHeldState(state_store, PathMaybeWithLocale(last'.path, locale)).some

\* In Request mode the widget's state in widget_states is undeserializable:
\* the widget is the error view of InvalidState and the store is as before.
RequestStateInvalid ==
    LET full == PathMaybeWithLocale(last'.path, locale)
    IN  ( /\ LooksUpState /\ side = "engine" /\ render_mode = "Request"
          /\ ~last'.site.delayed
          /\ full \in DOMAIN widget_states
          /\ widget_states[full].ok
          /\ Undeserializable(widget_states[full].state) )
        => /\ last'.view =
                 HandleWidget(InvalidState(IntoConcrete(widget_states[full].state).err))
           /\ state_store' = state_store

\* In Build mode the widget's state file holds an undeserializable state:
\* the build fails with InvalidState, no view is made and the store is as
\* before.
BuildStateInvalid ==
    LET path == last'.path
        text == StateTextOf(StoreRead(StateFileKey(locale, path)))
        state == TemplateStateFromStr(text.val)
    IN  ( /\ LooksUpState /\ side = "engine" /\ render_mode = "Build"
          /\ ~last'.site.delayed
          /\ RenderStatusIsOk(render_status)
          /\ path \in DOMAIN widget_render_cfg
          /\ ~UnsafeForBuild(capsules[last'.site.capsule])
          /\ text.ok /\ state.ok
          /\ Undeserializable(state.val) )
        => /\ render_status' =
                 StatusErr([type |-> "ClientError",
                            err |-> InvalidState(IntoConcrete(state.val).err)])
           /\ last'.view.kind # "widget"
           /\ state_store' = state_store

\* In the browser the preloaded state of the widget is undeserializable: the
\* widget is the error view of InvalidState and the path still has no state.
PreloadedStateInvalid ==
    LET full == PathMaybeWithLocale(last'.path, locale)
        unrx_res == IntoConcreteResult(TemplateStateFromValue(state_store.preloaded[full].state))
    IN  ( /\ LooksUpState /\ side = "client" /\ last'.verdict = "Found"
          /\ Contains(state_store, full) = "Preloaded"
          /\ ~unrx_res.ok )
        => /\ last'.view = HandleWidget(InvalidState(unrx_res.err))
           /\ StateOf(state_store', full) = StateOf(state_store, full)

\* The head's state is undeserializable: the head function's result is
\* InvalidState and the store is as before.
HeadStateInvalid ==
    (render_mode = "Head" /\ result' # result /\ Undeserializable(given))
        => /\ result'.val = [ok |-> FALSE, err |-> InvalidState(IntoConcrete(given).err)]
           /\ state_store' = state_store

\* C23: when the state of a widget or of a head is there but does not
\* deserialize into the declared type, the operation fails with
\* InvalidState carrying the deserializer's error: the view function or head
\* function is not called (the widget is the error view, or the build's
\* status the error), no default state takes its place and the path gets no
\* state in the store.
C23_InvalidStateNeverDefaulted ==
    [][ RequestStateInvalid /\ BuildStateInvalid /\ PreloadedStateInvalid
        /\ HeadStateInvalid ]_vars

\* An undeserializable head state was refused.
C23_HeadWitness ==
    /\ render_mode = "Head" /\ given \in HeadStates /\ Undeserializable(given)
    /\ result = Returned("head", [ok |-> FALSE, err |-> InvalidState("invalid type")])

\* A widget whose state does not deserialize is an error view of
\* InvalidState and has no state in the store.
C23_Witness ==
    /\ side = "engine" /\ render_mode = "Request"
    /\ last.returned /\ ~last.site.delayed
    /\ LET full == PathMaybeWithLocale(last.path, locale)
       IN  /\ full \in DOMAIN widget_states
           /\ widget_states[full].ok
           /\ Undeserializable(widget_states[full].state)
           /\ last.view = HandleWidget(InvalidState("invalid type"))
           /\ StateOf(state_store, full).t = "None"

(***************************************************************************)
(* Two pages rendered concurrently, each with its own RenderMode           *)
(***************************************************************************)
\* The first page's view calls A.widget("/x"), the second's B.widget("w").
PageOneSites == { Site("A", <<Slash, "x">>, FALSE) }
PageTwoSites == { Site("B", <<"w">>, FALSE) }

\* The widget paths a page's render comes to: those of its own calls and of
\* the calls of its widgets' views.
PagePaths(p) ==
    IF p = 1
    THEN { SitePath(s) : s \in PageOneSites \cup CapsuleSites("A") }
    ELSE { SitePath(s) : s \in PageTwoSites }

\* The fields of the RenderMode of the page being rendered, and how far its
\* render has come.
RenderContext ==
    [page |-> running, render_status |-> render_status, widget_states |-> widget_states,
     possibly_incremental_paths |-> possibly_incremental_paths,
     unresolved_widget_accumulator |-> unresolved_widget_accumulator, todo |-> todo]

\* Mutant of ReactorFromCx: the pages share one render status and one pair
\* of accumulators.
ReactorFromCxShared(own, other) ==
    [own EXCEPT !.render_status = other.render_status,
                !.possibly_incremental_paths = other.possibly_incremental_paths,
                !.unresolved_widget_accumulator = other.unresolved_widget_accumulator]

\* Reactor::from_cx(): the reactor of the scope the view is rendered in,
\* that of the page's own render, whatever other renders are under way.
ReactorFromCx(own, other) == own

\* The render of the other page goes on: its widget calls find its reactor.
Switch ==
    /\ parked # Nobody
    /\ ~panicked /\ outcome = "rendering"
    /\ LET cx == ReactorFromCx(parked, RenderContext)
       IN  /\ running' = cx.page
           /\ render_status' = cx.render_status
           /\ widget_states' = cx.widget_states
           /\ possibly_incremental_paths' = cx.possibly_incremental_paths
           /\ unresolved_widget_accumulator' = cx.unresolved_widget_accumulator
           /\ todo' = cx.todo
    /\ parked' = RenderContext
    /\ UNCHANGED <<side, render_mode, locale, capsules, widget_render_cfg, immutable_store,
                   state_store, store_reads, spawned_fetches, last, panicked>>
    /\ UNCHANGED <<appVars, callVars, driverVars, taskVars>>

\* The render config and the state files of a build of both pages.
BuiltPaths ==
    { SitePath(s) : s \in PageOneSites \cup PageTwoSites
                          \cup {Site("B", <<"y", Slash>>, FALSE)} }

\* What the earlier passes of a request for the page fetched; nothing in a
\* build.
FetchedFor(p) ==
    IF render_mode = "Build" THEN {EmptyMap}
    ELSE PartialFns({ PathMaybeWithLocale(q, locale) : q \in PagePaths(p) }, RequestResults)

\* Two pages of the app are rendered at once, in Build mode or in Request
\* mode, each with a RenderMode of its own.
InitPages ==
    /\ side = "engine" /\ render_mode \in {"Build", "Request"}
    /\ locale \in Locales
    /\ capsules \in [CapsuleNames -> IF render_mode = "Build" THEN CapsuleKinds ELSE ViewKinds]
    /\ page_sites = PageOneSites \cup PageTwoSites
    /\ children = [c \in CapsuleNames |-> CapsuleSites(c)]
    /\ template = TemplateInnerNew /\ incremental_capsules = {}
    /\ pass = 1 /\ outcome = "rendering"
    /\ InitNoTasks /\ InitNoCall
    /\ IF render_mode = "Build"
       THEN \E P \in SUBSET BuiltPaths :
               /\ widget_render_cfg = [p \in P |-> OwnerOf(p)]
               /\ immutable_store \in
                     PartialFns({ StateFileKey(locale, p) : p \in P }, FileOutcomes)
       ELSE widget_render_cfg = EmptyMap /\ immutable_store = EmptyMap
    /\ running = 1
    /\ render_status = StatusOk
    /\ possibly_incremental_paths = <<>>
    /\ unresolved_widget_accumulator = <<>>
    /\ todo = <<PageOneSites>>
    /\ \E one \in FetchedFor(1), two \in FetchedFor(2) :
          /\ widget_states = one
          /\ parked = [page |-> 2, render_status |-> StatusOk, widget_states |-> two,
                       possibly_incremental_paths |-> <<>>,
                       unresolved_widget_accumulator |-> <<>>, todo |-> <<PageTwoSites>>]
    /\ state_store = EmptyStore
    /\ store_reads = <<>>
    /\ spawned_fetches = {}
    /\ last = [n |-> 0, site |-> Site("", <<>>, FALSE), path |-> <<>>, verdict |-> "none",
               view |-> NoView, returned |-> FALSE, pre |-> [render_status |-> StatusOk]]
    /\ panicked = FALSE

NextPages == Widget \/ Switch

SpecPages == InitPages /\ [][NextPages]_vars

\* The paths a render context holds: the keys of widget_states and the
\* paths accumulated.
PathsOf(cx) ==
    DOMAIN cx.widget_states \cup Range(cx.possibly_incremental_paths)
        \cup Range(cx.unresolved_widget_accumulator)

\* Every path a page's context holds is a path of that page's own widgets.
AtHome(cx) ==
    PathsOf(cx) \subseteq
        PagePaths(cx.page) \cup { PathMaybeWithLocale(q, locale) : q \in PagePaths(cx.page) }

PreloadedTasks ==
    { t \in DOMAIN preloads : ~preloads[t].pending /\ preloads[t].ok /\ t \notin DOMAIN settled }

\* C31: in the browser, once preload() has returned Ok(()) for a widget's
\* path, the state lookup of that path does not answer Ok(None): it gives a
\* state or an error, whichever tasks of the same path have finished in the
\* meantime, and the unreachable!() of the task is never reached.
C31_NoRefetchAfterPreload ==
    side = "client" =>
        /\ ~panicked
        /\ \A t \in PreloadedTasks :
               LET r == GetWidgetStateNoFetch(state_store, t.path, EmptyTemplateState, TRUE)
               IN  r.ok => r.some

\* Two tasks of one path whose fetch gave an undeserializable state: the
\* first has ended with an error and left the entry with a head only, the
\* second is about to look the state up.
C31_Witness ==
    /\ side = "client"
    /\ \E t1 \in DOMAIN settled, t2 \in PreloadedTasks :
          /\ t1.path = t2.path /\ t1 # t2
          /\ preloads[t1].ok
          /\ settled[t1].kind = "error"
          /\ Contains(state_store, t2.path) = "Head"

(***************************************************************************)
(* TemplateInner::set_headers_with_state                                   *)
(***************************************************************************)
\* The HeaderMap the user's function makes of a state.
HeaderMap(state) == [kind |-> "headers", state |-> state]

\* The closure set_headers_with_state stores as the template's header
\* function, applied to the state of the page.
SetHeadersWithState(template_state) ==
    IF IsEmpty(template_state) THEN [ok |-> FALSE, err |-> NoState]
    ELSE LET state == IntoConcrete(template_state)
         IN  IF ~state.ok THEN [ok |-> FALSE, err |-> InvalidState(state.err)]
             ELSE [ok |-> TRUE, headers |-> HeaderMap(state.val)]

\* The headers of a page are set with the state in `given`.
SetHeaders ==
    /\ render_mode = "Headers" /\ given \in HeadStates /\ result = Nothing
    /\ result' = Returned("set_headers", SetHeadersWithState(given))
    /\ UNCHANGED <<given, renderVars, appVars, pageVars, driverVars, taskVars>>

\* A page without widgets whose headers are about to be set.
InitHeaders ==
    /\ side = "engine" /\ render_mode = "Headers"
    /\ given \in HeadStates /\ result = Nothing
    /\ locale \in Locales
    /\ capsules \in [CapsuleNames -> ViewKinds]
    /\ page_sites = {} /\ children = [c \in CapsuleNames |-> {}]
    /\ template = TemplateInnerNew /\ incremental_capsules = {}
    /\ pass = 1 /\ outcome = "rendering"
    /\ InitNoTasks /\ InitOnePage
    /\ render_status = StatusOk
    /\ widget_render_cfg = EmptyMap /\ immutable_store = EmptyMap
    /\ widget_states = EmptyMap
    /\ possibly_incremental_paths = <<>>
    /\ unresolved_widget_accumulator = <<>>
    /\ state_store = EmptyStore
    /\ store_reads = <<>>
    /\ spawned_fetches = {}
    /\ todo = <<>>
    /\ last = [n |-> 0, site |-> Site("", <<>>, FALSE), path |-> <<>>, verdict |-> "none",
               view |-> NoView, returned |-> FALSE, pre |-> [render_status |-> StatusOk]]
    /\ panicked = FALSE

NextSetters == Widget \/ RenderHead \/ SetHeaders

\* The widgets of a page, its head and its headers, each made of its state.
SpecSetters == (Init \/ InitHead \/ InitHeaders) /\ [][NextSetters]_vars

\* In Request mode the widget's state in widget_states is empty: the widget
\* is the error view of NoState and the store is as before.
RequestStateEmpty ==
    LET full == PathMaybeWithLocale(last'.path, locale)
    IN  ( /\ LooksUpState /\ side = "engine" /\ render_mode = "Request"
          /\ ~last'.site.delayed
          /\ full \in DOMAIN widget_states
          /\ widget_states[full].ok
          /\ IsEmpty(widget_states[full].state) )
        => /\ last'.view = HandleWidget(NoState)
           /\ state_store' = state_store

\* In Build mode the widget's state file holds the empty state, or is
\* missing: the build fails with NoState, no view is made and the store is
\* as before.
BuildStateEmpty ==
    LET path == last'.path
        text == StateTextOf(StoreRead(StateFileKey(locale, path)))
        state == TemplateStateFromStr(text.val)
    IN  ( /\ LooksUpState /\ side = "engine" /\ render_mode = "Build"
          /\ ~last'.site.delayed
          /\ RenderStatusIsOk(render_status)
          /\ path \in DOMAIN widget_render_cfg
          /\ ~UnsafeForBuild(capsules[last'.site.capsule])
          /\ text.ok /\ state.ok
          /\ IsEmpty(state.val) )
        => /\ render_status' = StatusErr([type |-> "ClientError", err |-> NoState])
           /\ last'.view.kind # "widget"
           /\ state_store' = state_store

\* The head function or the header function is given the empty state: its
\* result is NoState and the store is as before.
SetterStateEmpty ==
    ( /\ render_mode \in {"Head", "Headers"} /\ result' # result
      /\ IsEmpty(given) )
        => /\ result'.val = [ok |-> FALSE, err |-> NoState]
           /\ state_store' = state_store

\* C32: a state-consuming operation given an empty template state fails
\* with NoState, the user's function is not called and the state store is
\* left as it was: for the engine's widget state lookup (the widget is the
\* error view of NoState, or the build's status that error) and for the
\* functions registered with head_with_state and set_headers_with_state.
C32_EmptyStateIsNoState ==
    [][ RequestStateEmpty /\ BuildStateEmpty /\ SetterStateEmpty ]_vars

\* The header function was given the empty state and refused it.
C32_HeadersWitness ==
    /\ render_mode = "Headers" /\ given = EmptyTemplateState
    /\ result = Returned("set_headers", [ok |-> FALSE, err |-> NoState])

\* A widget whose state is empty is the error view of NoState and has no
\* entry in the store.
C32_Witness ==
    /\ side = "engine" /\ render_mode = "Request"
    /\ last.returned /\ ~last.site.delayed
    /\ capsules[last.site.capsule].takes_state
    /\ LET full == PathMaybeWithLocale(last.path, locale)
       IN  /\ full \in DOMAIN widget_states
           /\ widget_states[full].ok
           /\ IsEmpty(widget_states[full].state)
           /\ last.view = HandleWidget(NoState)
           /\ full \notin DOMAIN state_store.map

\* The state is held for the path: whatever state a later lookup is given,
\* on either side, it answers with the held state and leaves the store,
\* its preloaded entries included, as it is.
HeldFor(store, url, rx) ==
    /\ GetHeldState(store, url) = [some |-> TRUE, rx |-> rx]
    /\ \A ts \in HeadStates, client \in BOOLEAN :
           GetWidgetStateNoFetch(store, url, ts, client) = OkSome(rx, store)

\* The widget call of this step got a state from the lookup and rendered
\* the capsule's view with it.
CallGotState ==
    /\ Invoked /\ last'.returned
    /\ capsules[last'.site.capsule].takes_state
    /\ last'.view.kind = "widget"

RendersInRequest(s) ==
    LET full == PathMaybeWithLocale(SitePath(s), locale)
    IN  /\ ~s.delayed
        /\ full \in DOMAIN widget_states
        /\ widget_states[full].ok
        /\ capsules[s.capsule].takes_state =>
               (~IsEmpty(widget_states[full].state) /\ IntoConcrete(widget_states[full].state).ok)

\* The call sites a pass comes to from `sites`: those and the calls of the
\* views of the widgets that are rendered, to depth n.
RECURSIVE InvokedFrom(_, _)
InvokedFrom(sites, n) ==
    IF n = 0 \/ sites = {} THEN sites
    ELSE sites \cup InvokedFrom(UNION { children[s.capsule] :
                                           s \in { t \in sites : RendersInRequest(t) } }, n - 1)

\* The paths a pass leaves unresolved, whatever the order of the calls.
ExpectedUnresolved ==
    { SitePath(s) : s \in { t \in InvokedFrom(page_sites, Cardinality(AllSites)) :
                               /\ ~t.delayed
                               /\ PathMaybeWithLocale(SitePath(t), locale)
                                      \notin DOMAIN widget_states } }

\* C34: in a Request pass the widget calls leave widget_states as it is, and
\* at the end of the pass the set of paths in unresolved_widget_accumulator
\* is the one set that widget_states and the page determine, in whatever
\* order the sibling widgets were called.
C34_RequestPassOrderIndependent ==
    [][ (render_mode = "Request") =>
          /\ Invoked => widget_states' = widget_states
          /\ (todo' = <<>>) => Range(unresolved_widget_accumulator') = ExpectedUnresolved' ]_vars

\* A pass has ended with two unresolved paths, accumulated in one of the two
\* orders.
C34_Witness ==
    /\ render_mode = "Request" /\ todo = <<>>
    /\ Len(unresolved_widget_accumulator) >= 2
    /\ unresolved_widget_accumulator[1] = <<"B">>
    /\ unresolved_widget_accumulator[2] # <<"B">>

\* The same pass, its paths accumulated in the other order.
C34_WitnessOtherOrder ==
    /\ render_mode = "Request" /\ todo = <<>>
    /\ Len(unresolved_widget_accumulator) >= 2
    /\ unresolved_widget_accumulator[2] = <<"B">>
    /\ unresolved_widget_accumulator[1] # <<"B">>

(***************************************************************************)
(* One page built twice from the same inputs, its sibling widgets called   *)
(* in any order in either render                                           *)
(***************************************************************************)
\* The page's view calls A.widget("/x") and B.widget("w").
TwinSites == PageOneSites \cup PageTwoSites

\* Two builds of the page, each with a RenderMode of its own, over the same
\* render config and the same state files.
InitTwinBuild ==
    /\ side = "engine" /\ render_mode = "Build"
    /\ locale = "en-US"
    /\ capsules \in [CapsuleNames -> CapsuleKinds]
    /\ page_sites = TwinSites
    /\ children = [c \in CapsuleNames |-> CapsuleSites(c)]
    /\ template = TemplateInnerNew /\ incremental_capsules = {}
    /\ pass = 1 /\ outcome = "rendering"
    /\ InitNoTasks /\ InitNoCall
    /\ \E P \in SUBSET BuiltPaths :
          /\ widget_render_cfg = [p \in P |-> OwnerOf(p)]
          /\ immutable_store \in
                PartialFns({ StateFileKey(locale, p) : p \in P }, FileOutcomes)
    /\ running = 1
    /\ render_status = StatusOk
    /\ widget_states = EmptyMap
    /\ possibly_incremental_paths = <<>>
    /\ unresolved_widget_accumulator = <<>>
    /\ todo = <<TwinSites>>
    /\ parked = [page |-> 2, render_status |-> StatusOk, widget_states |-> EmptyMap,
                 possibly_incremental_paths |-> <<>>,
                 unresolved_widget_accumulator |-> <<>>, todo |-> <<TwinSites>>]
    /\ state_store = EmptyStore
    /\ store_reads = <<>>
    /\ spawned_fetches = {}
    /\ last = [n |-> 0, site |-> Site("", <<>>, FALSE), path |-> <<>>, verdict |-> "none",
               view |-> NoView, returned |-> FALSE, pre |-> [render_status |-> StatusOk]]
    /\ panicked = FALSE

SpecTwinBuild == InitTwinBuild /\ [][NextPages]_vars

\* Both builds of the page have made all their calls.
TwinsDone == render_mode = "Build" /\ parked # Nobody /\ todo = <<>> /\ parked.todo = <<>>

\* C35 as claimed: two builds of a page from the same inputs end with the
\* same kind of render_status (Ok, Cancelled or Err), in whatever order each
\* of them called the sibling widgets.
C35_BuildStatusOrderIndependent ==
    TwinsDone => render_status.kind = parked.render_status.kind

\* What does hold: whether the build ends Ok does not depend on the order.
C35_BuildOkOrderIndependent ==
    TwinsDone => (RenderStatusIsOk(render_status) <=> RenderStatusIsOk(parked.render_status))

\* C36: throughout a build pass every key of widget_states is the
\* locale-qualified form of a path of the render config, stored with the
\* capsule name the render config gives that path, and no path in
\* possibly_incremental_paths is in the render config.
C36_AccumulatorsPartitionByConfig ==
    render_mode = "Build" =>
        /\ \A k \in DOMAIN widget_states :
               \E p \in DOMAIN widget_render_cfg :
                   /\ k = PathMaybeWithLocale(p, locale)
                   /\ widget_states[k].capsule_name = widget_render_cfg[p]
        /\ \A p \in Range(possibly_incremental_paths) : p \notin DOMAIN widget_render_cfg

\* A build pass has resolved a widget of the render config and deferred
\* another that is not in it.
C36_Witness ==
    /\ render_mode = "Build"
    /\ DOMAIN widget_states # {}
    /\ possibly_incremental_paths # <<>>
    /\ DOMAIN widget_render_cfg # {}

\* C37: a build pass that ends with render_status Ok has an entry in
\* widget_states for every non-delayed widget of the render config that was
\* called during the pass, nested ones included.  Step by step: a call of
\* such a widget that leaves the status Ok leaves its entry in widget_states,
\* no call removes an entry, and a status that is not Ok never becomes Ok
\* again.
C37_OkBuildRecordsEveryWidget ==
    [][ (render_mode = "Build" /\ Invoked) =>
          /\ ( /\ RenderStatusIsOk(render_status')
               /\ ~last'.site.delayed
               /\ last'.path \in DOMAIN widget_render_cfg )
             => PathMaybeWithLocale(last'.path, locale) \in DOMAIN widget_states'
          /\ DOMAIN widget_states \subseteq DOMAIN widget_states'
          /\ RenderStatusIsOk(render_status') => RenderStatusIsOk(render_status) ]_vars

\* A build pass has ended Ok with entries for A/x, called by the page, and
\* for B/y, called by the view of A/x.
C37_Witness ==
    /\ render_mode = "Build" /\ todo = <<>>
    /\ RenderStatusIsOk(render_status)
    /\ { PathMaybeWithLocale(<<"A", Slash, "x">>, locale),
         PathMaybeWithLocale(<<"B", Slash, "y">>, locale) } \subseteq DOMAIN widget_states

(***************************************************************************)
(* A widget the router does not find                                       *)
(***************************************************************************)
\* A browser widget call whose route verdict was not Found.
CallUnrouted == Invoked /\ side = "client" /\ last'.verdict # "Found"

\* Nothing of the store, the fetches or the dependencies changes.
NoResolution ==
    /\ state_store' = state_store
    /\ store_reads' = store_reads
    /\ spawned_fetches' = spawned_fetches
    /\ UNCHANGED taskVars

\* C38 as stated: in the browser, a widget whose route verdict is not Found
\* renders the widget-position error view of BadWidgetRouteMatch naming the
\* widget's locale-qualified path, and nothing is looked up, fetched or
\* declared for it.
C38_BadRouteNamesFullPath ==
    [][ CallUnrouted =>
          /\ last'.view =
                 HandleWidget(BadWidgetRouteMatch(
                     PathMaybeWithLocale(SitePath(last'.site), locale)))
          /\ NoResolution ]_vars

\* C38 amended: in the browser, a widget whose route verdict is not Found
\* renders the widget-position error view of BadWidgetRouteMatch naming the
\* widget's path without its locale, and nothing is looked up, fetched or
\* declared for it.
C38_BadRouteNamesWidgetPath ==
    [][ CallUnrouted =>
          /\ last'.view = HandleWidget(BadWidgetRouteMatch(SitePath(last'.site)))
          /\ IsWidgetErrorView(last'.view)
          /\ NoResolution ]_vars

\* A localized browser widget call whose route verdict was NotFound or
\* LocaleDetection rendered the error view naming the locale-less path.
C38_Witness ==
    /\ side = "client" /\ locale # NoLocale
    /\ last.n > 0 /\ last.verdict \in {"NotFound", "LocaleDetection"}
    /\ last.view = HandleWidget(BadWidgetRouteMatch(SitePath(last.site)))
    /\ PathMaybeWithLocale(SitePath(last.site), locale) # SitePath(last.site)

(***************************************************************************)
(* The keys of the state store                                             *)
(***************************************************************************)
\* Every key under which the store holds, fetches or relates something.
StoreKeys ==
    DOMAIN state_store.map \cup DOMAIN state_store.preloaded
        \cup in_flight \cup DOMAIN fetches \cup { d[1] : d \in dependencies }

\* The keys at which two maps differ.
ChangedKeys(f, g) ==
    { k \in DOMAIN f \cup DOMAIN g :
        k \notin DOMAIN f \/ k \notin DOMAIN g \/ f[k] # g[k] }

\* The keys of the store a step touches.
Touched ==
    ChangedKeys(state_store.map, state_store'.map)
        \cup ChangedKeys(state_store.preloaded, state_store'.preloaded)
        \cup ChangedKeys(fetches, fetches')
        \cup { d[1] : d \in dependencies' \ dependencies }

\* Every key is a locale-qualified widget path, and the locale-less path a
\* task preloads with denotes, with its locale, the task's own key.
KeyedByFullPath ==
    /\ StoreKeys \subseteq FullPaths(locale)
    /\ \A t \in spawned_fetches :
          /\ t.path \in FullPaths(locale)
          /\ PreloadKey(t) = t.path

\* C39: in the browser every store access made while a widget is resolved
\* (contains, get_preloaded, add_head, add_state, declare_dependency) is
\* keyed by the widget's locale-qualified path; the locale-less path is
\* used only with its locale, in preload, and the pair denotes the entry
\* of the locale-qualified key used before and after the fetch.
C39_StoreKeyedByFullPath ==
    [][ (side = "client") =>
          /\ KeyedByFullPath /\ KeyedByFullPath'
          /\ Invoked =>
                /\ Touched \subseteq {PathMaybeWithLocale(last'.path, locale)}
                /\ \A t \in spawned_fetches' \ spawned_fetches :
                      t.path = PathMaybeWithLocale(last'.path, locale)
          /\ \A t \in DOMAIN preloads' \ DOMAIN preloads :
                Touched \subseteq {t.path}
          /\ \A t \in DOMAIN settled' \ DOMAIN settled :
                /\ Touched \subseteq {t.path}
                /\ dependencies' \ dependencies \subseteq {<<t.path, t.caller_path>>} ]_vars

\* Under a locale, a widget was fetched under its locale-qualified key,
\* its state was added under that key and its dependency declared.
C39_Witness ==
    /\ side = "client" /\ locale # NoLocale
    /\ \E t \in DOMAIN settled :
          /\ PathWithoutLocaleOf(t.path, locale) # t.path
          /\ t.path \in DOMAIN fetches
          /\ t.path \in DOMAIN state_store.map
          /\ state_store.map[t.path].state.t = "Some"
          /\ <<t.path, t.caller_path>> \in dependencies
          /\ PathWithoutLocaleOf(t.path, locale) \notin StoreKeys

====
